---- MODULE Spec2Model ----
(***************************************************************************)
(* Model of the documentation-site feature tables (FeatureTables           *)
(* component): the static FEATURE_TABLES registry, the DEPRECATED_DOC_IDS   *)
(* deny-list, and the components CategoryTable, ItemTable and IndexTable    *)
(* built on toTable and truncate.                                           *)
(*                                                                         *)
(* JavaScript values are modelled as follows.  `undefined` is the empty     *)
(* tuple and a defined value v is the one-element tuple <<v>>, so that a    *)
(* property read can be told apart from a missing property.  An object is   *)
(* a record; a property whose value is `undefined` is modelled as a missing *)
(* field (the two read the same).  A rendered node is a record              *)
(* [tag, href, children]: a text node or an <a> element.  The characters    *)
(* U+2705 and U+274C are written "U+2705" and "U+274C".                     *)
(***************************************************************************)
EXTENDS Integers, Sequences, FiniteSets, TLC

\* Longest sidebar category list handed to IndexTable.
MaxEntries == 3
\* Longest string handed to truncate.
MaxDescLen == 110

\* Longest sequence of completed calls that is recorded.
MaxCalls == 3

\* The most pieces a language-model output is put together from.
MaxPieces == 4

VARIABLES tables, deprecated, call, completion, history, sidebar

vars == <<tables, deprecated, call, completion, history, sidebar>>

----------------------------------------------------------------------------
\* JavaScript values

undefined == <<>>

Some(v) == <<v>>

\* obj.key for a plain record: undefined when the object has no such key.
Get(obj, key) == IF key \in DOMAIN obj THEN Some(obj[key]) ELSE undefined

\* v ? ... : ... on a boolean-or-undefined value.
Truthy(v) == v # undefined /\ v[1] = TRUE

\* v ?? dflt
Nullish(v, dflt) == IF v = undefined THEN dflt ELSE v[1]

\* JSX nodes: a text child and an <a href=...>child</a> element.
Text(s) == [tag |-> "#text", href |-> undefined, children |-> Some(s)]

A(href, child) == [tag |-> "a", href |-> href, children |-> child]

\* The three shapes of column formatter found in the file, as strategy tags.
FmtLink(hrefField, childField) ==
  [kind |-> "a", field |-> hrefField, child |-> childField, yes |-> "", no |-> "", limit |-> 0]

FmtCond(testField, yes, no) ==
  [kind |-> "cond", field |-> testField, child |-> "", yes |-> yes, no |-> no, limit |-> 0]

FmtField(valueField) ==
  [kind |-> "field", field |-> valueField, child |-> "", yes |-> "", no |-> "", limit |-> 0]

FmtTruncate(valueField, n) ==
  [kind |-> "truncate", field |-> valueField, child |-> "", yes |-> "", no |-> "", limit |-> n]

----------------------------------------------------------------------------
\* Static data

FEATURE_TABLES ==
  [ chat |->
      [ link |-> "/docs/integrations/chat",
        columns |-> <<
          [title |-> Text("Provider"), formatter |-> FmtLink("link", "name")],
          [title |-> A(Some("/docs/how_to/tool_calling"), Some("Tool calling")), formatter |-> FmtCond("tool_calling", "U+2705", "U+274C")],
          [title |-> A(Some("/docs/how_to/structured_output/"), Some("Structured output")), formatter |-> FmtCond("structured_output", "U+2705", "U+274C")],
          [title |-> Text("JSON mode"), formatter |-> FmtCond("json_mode", "U+2705", "U+274C")],
          [title |-> Text("Local"), formatter |-> FmtCond("local", "U+2705", "U+274C")],
          [title |-> A(Some("/docs/how_to/multimodal_inputs/"), Some("Multimodal")), formatter |-> FmtCond("multimodal", "U+2705", "U+274C")],
          [title |-> Text("Package"), formatter |-> FmtLink("apiLink", "package")]
        >>,
        items |-> <<
          [name |-> "ChatAnthropic", package |-> "langchain-anthropic", link |-> "anthropic/", structured_output |-> TRUE, tool_calling |-> TRUE, json_mode |-> FALSE, multimodal |-> TRUE, local |-> FALSE, apiLink |-> "https://api.python.langchain.com/en/latest/chat_models/langchain_anthropic.chat_models.ChatAnthropic.html#langchain_anthropic.chat_models.ChatAnthropic"],
          [name |-> "ChatMistralAI", package |-> "langchain-mistralai", link |-> "mistralai/", structured_output |-> TRUE, tool_calling |-> TRUE, json_mode |-> FALSE, multimodal |-> FALSE, local |-> FALSE, apiLink |-> "https://api.python.langchain.com/en/latest/chat_models/langchain_mistralai.chat_models.ChatMistralAI.html#langchain_mistralai.chat_models.ChatMistralAI"],
          [name |-> "ChatFireworks", package |-> "langchain-fireworks", link |-> "fireworks/", structured_output |-> TRUE, tool_calling |-> TRUE, json_mode |-> TRUE, multimodal |-> FALSE, local |-> FALSE, apiLink |-> "https://api.python.langchain.com/en/latest/chat_models/langchain_fireworks.chat_models.ChatFireworks.html#langchain_fireworks.chat_models.ChatFireworks"],
          [name |-> "AzureChatOpenAI", package |-> "langchain-openai", link |-> "azure_chat_openai/", structured_output |-> TRUE, tool_calling |-> TRUE, json_mode |-> TRUE, multimodal |-> TRUE, local |-> FALSE, apiLink |-> "https://api.python.langchain.com/en/latest/chat_models/langchain_openai.chat_models.azure.AzureChatOpenAI.html#langchain_openai.chat_models.azure.AzureChatOpenAI"],
          [name |-> "ChatOpenAI", package |-> "langchain-openai", link |-> "openai/", structured_output |-> TRUE, tool_calling |-> TRUE, json_mode |-> TRUE, multimodal |-> TRUE, local |-> FALSE, apiLink |-> "https://api.python.langchain.com/en/latest/chat_models/langchain_openai.chat_models.base.ChatOpenAI.html#langchain_openai.chat_models.base.ChatOpenAI"],
          [name |-> "ChatTogether", package |-> "langchain-together", link |-> "together/", structured_output |-> TRUE, tool_calling |-> TRUE, json_mode |-> TRUE, multimodal |-> FALSE, local |-> FALSE, apiLink |-> "https://api.python.langchain.com/en/latest/chat_models/langchain_together.chat_models.ChatTogether.html#langchain_together.chat_models.ChatTogether"],
          [name |-> "ChatVertexAI", package |-> "langchain-google-vertexai", link |-> "google_vertex_ai_palm/", structured_output |-> TRUE, tool_calling |-> TRUE, json_mode |-> FALSE, multimodal |-> TRUE, local |-> FALSE, apiLink |-> "https://api.python.langchain.com/en/latest/chat_models/langchain_google_vertexai.chat_models.ChatVertexAI.html#langchain_google_vertexai.chat_models.ChatVertexAI"],
          [name |-> "ChatGoogleGenerativeAI", package |-> "langchain-google-genai", link |-> "google_generative_ai/", structured_output |-> TRUE, tool_calling |-> TRUE, json_mode |-> FALSE, multimodal |-> TRUE, local |-> FALSE, apiLink |-> "https://api.python.langchain.com/en/latest/chat_models/langchain_google_genai.chat_models.ChatGoogleGenerativeAI.html#langchain_google_genai.chat_models.ChatGoogleGenerativeAI"],
          [name |-> "ChatGroq", package |-> "langchain-groq", link |-> "groq/", structured_output |-> TRUE, tool_calling |-> TRUE, json_mode |-> TRUE, multimodal |-> FALSE, local |-> FALSE, apiLink |-> "https://api.python.langchain.com/en/latest/chat_models/langchain_groq.chat_models.ChatGroq.html#langchain_groq.chat_models.ChatGroq"],
          [name |-> "ChatCohere", package |-> "langchain-cohere", link |-> "cohere/", structured_output |-> TRUE, tool_calling |-> TRUE, json_mode |-> FALSE, multimodal |-> FALSE, local |-> FALSE, apiLink |-> "https://api.python.langchain.com/en/latest/chat_models/langchain_cohere.chat_models.ChatCohere.html#langchain_cohere.chat_models.ChatCohere"],
          [name |-> "ChatBedrock", package |-> "langchain-aws", link |-> "bedrock/", structured_output |-> TRUE, tool_calling |-> TRUE, json_mode |-> FALSE, multimodal |-> FALSE, local |-> FALSE, apiLink |-> "https://api.python.langchain.com/en/latest/chat_models/langchain_aws.chat_models.bedrock.ChatBedrock.html#langchain_aws.chat_models.bedrock.ChatBedrock"],
          [name |-> "ChatHuggingFace", package |-> "langchain-huggingface", link |-> "huggingface/", structured_output |-> TRUE, tool_calling |-> TRUE, json_mode |-> FALSE, multimodal |-> FALSE, local |-> TRUE, apiLink |-> "https://api.python.langchain.com/en/latest/chat_models/langchain_huggingface.chat_models.huggingface.ChatHuggingFace.html#langchain_huggingface.chat_models.huggingface.ChatHuggingFace"],
          [name |-> "ChatNVIDIA", package |-> "langchain-nvidia-ai-endpoints", link |-> "nvidia_ai_endpoints/", structured_output |-> TRUE, tool_calling |-> TRUE, json_mode |-> FALSE, multimodal |-> FALSE, local |-> TRUE, apiLink |-> "https://api.python.langchain.com/en/latest/chat_models/langchain_nvidia_ai_endpoints.chat_models.ChatNVIDIA.html#langchain_nvidia_ai_endpoints.chat_models.ChatNVIDIA"],
          [name |-> "ChatOllama", package |-> "langchain-ollama", link |-> "ollama/", structured_output |-> TRUE, tool_calling |-> TRUE, json_mode |-> TRUE, multimodal |-> FALSE, local |-> TRUE, apiLink |-> "https://api.python.langchain.com/en/latest/chat_models/langchain_ollama.chat_models.ChatOllama.html#langchain_ollama.chat_models.ChatOllama"],
          [name |-> "ChatLlamaCpp", package |-> "langchain-community", link |-> "llamacpp", structured_output |-> TRUE, tool_calling |-> TRUE, json_mode |-> FALSE, multimodal |-> FALSE, local |-> TRUE, apiLink |-> "https://api.python.langchain.com/en/latest/chat_models/langchain_community.chat_models.llamacpp.ChatLlamaCpp.html#langchain_community.chat_models.llamacpp.ChatLlamaCpp"],
          [name |-> "ChatAI21", package |-> "langchain-ai21", link |-> "ai21", structured_output |-> TRUE, tool_calling |-> TRUE, json_mode |-> FALSE, multimodal |-> FALSE, local |-> FALSE, apiLink |-> "https://api.python.langchain.com/en/latest/chat_models/langchain_ai21.chat_models.ChatAI21.html#langchain_ai21.chat_models.ChatAI21"],
          [name |-> "ChatUpstage", package |-> "langchain-upstage", link |-> "upstage", structured_output |-> TRUE, tool_calling |-> TRUE, json_mode |-> FALSE, multimodal |-> FALSE, local |-> FALSE, apiLink |-> "https://api.python.langchain.com/en/latest/chat_models/langchain_upstage.chat_models.ChatUpstage.html#langchain_upstage.chat_models.ChatUpstage"]
        >> ],
    llms |->
      [ link |-> "/docs/integrations/llms",
        columns |-> <<
          [title |-> Text("Provider"), formatter |-> FmtLink("link", "name")],
          [title |-> Text("Package"), formatter |-> FmtLink("apiLink", "package")]
        >>,
        items |-> <<
          [name |-> "AI21LLM", link |-> "ai21", package |-> "langchain-ai21", apiLink |-> "https://api.python.langchain.com/en/latest/llms/langchain_ai21.llms.AI21LLM.html#langchain_ai21.llms.AI21LLM"],
          [name |-> "AnthropicLLM", link |-> "anthropic", package |-> "langchain-anthropic", apiLink |-> "https://api.python.langchain.com/en/latest/llms/langchain_anthropic.llms.AnthropicLLM.html#langchain_anthropic.llms.AnthropicLLM"],
          [name |-> "AzureOpenAI", link |-> "azure_openai", package |-> "langchain-openai", apiLink |-> "https://api.python.langchain.com/en/latest/llms/langchain_openai.llms.azure.AzureOpenAI.html#langchain_openai.llms.azure.AzureOpenAI"],
          [name |-> "BedrockLLM", link |-> "bedrock", package |-> "langchain-aws", apiLink |-> "https://api.python.langchain.com/en/latest/llms/langchain_aws.llms.bedrock.BedrockLLM.html#langchain_aws.llms.bedrock.BedrockLLM"],
          [name |-> "CohereLLM", link |-> "cohere", package |-> "langchain-cohere", apiLink |-> "https://api.python.langchain.com/en/latest/llms/langchain_cohere.llms.Cohere.html#langchain_cohere.llms.Cohere"],
          [name |-> "FireworksLLM", link |-> "fireworks", package |-> "langchain-fireworks", apiLink |-> "https://api.python.langchain.com/en/latest/llms/langchain_fireworks.llms.Fireworks.html#langchain_fireworks.llms.Fireworks"],
          [name |-> "OllamaLLM", link |-> "ollama", package |-> "langchain-ollama", apiLink |-> "https://api.python.langchain.com/en/latest/llms/langchain_ollama.llms.OllamaLLM.html#langchain_ollama.llms.OllamaLLM"],
          [name |-> "OpenAILLM", link |-> "openai", package |-> "langchain-openai", apiLink |-> "https://api.python.langchain.com/en/latest/llms/langchain_openai.llms.base.OpenAI.html#langchain_openai.llms.base.OpenAI"],
          [name |-> "TogetherLLM", link |-> "together", package |-> "langchain-together", apiLink |-> "https://api.python.langchain.com/en/latest/llms/langchain_together.llms.Together.html#langchain_together.llms.Together"],
          [name |-> "VertexAILLM", link |-> "google_vertexai", package |-> "langchain-google_vertexai", apiLink |-> "https://api.python.langchain.com/en/latest/llms/langchain_google_vertexai.llms.VertexAI.html#langchain_google_vertexai.llms.VertexAI"]
        >> ],
    text_embedding |->
      [ link |-> "/docs/integrations/text_embedding",
        columns |-> <<
          [title |-> Text("Provider"), formatter |-> FmtLink("link", "name")],
          [title |-> Text("Package"), formatter |-> FmtLink("apiLink", "package")]
        >>,
        items |-> <<
          [name |-> "AzureOpenAI", link |-> "azureopenai", package |-> "langchain-openai", apiLink |-> "https://api.python.langchain.com/en/latest/embeddings/langchain_openai.embeddings.azure.AzureOpenAIEmbeddings.html#langchain_openai.embeddings.azure.AzureOpenAIEmbeddings"],
          [name |-> "Ollama", link |-> "ollama", package |-> "langchain-ollama", apiLink |-> "https://api.python.langchain.com/en/latest/embeddings/langchain_ollama.embeddings.OllamaEmbeddings.html#langchain_ollama.embeddings.OllamaEmbeddings"],
          [name |-> "AI21", link |-> "ai21", package |-> "langchain-ai21", apiLink |-> "https://api.python.langchain.com/en/latest/embeddings/langchain_ai21.embeddings.AI21Embeddings.html#langchain_ai21.embeddings.AI21Embeddings"],
          [name |-> "Fake", link |-> "fake", package |-> "langchain-core", apiLink |-> "https://api.python.langchain.com/en/latest/embeddings/langchain_core.embeddings.fake.FakeEmbeddings.html#langchain_core.embeddings.fake.FakeEmbeddings"],
          [name |-> "OpenAI", link |-> "openai", package |-> "langchain-openai", apiLink |-> "https://api.python.langchain.com/en/latest/chat_models/langchain_openai.chat_models.base.ChatOpenAI.html#langchain_openai.chat_models.base.ChatOpenAI"],
          [name |-> "Together", link |-> "together", package |-> "langchain-together", apiLink |-> "https://api.python.langchain.com/en/latest/embeddings/langchain_together.embeddings.TogetherEmbeddings.html#langchain_together.embeddings.TogetherEmbeddings"],
          [name |-> "Fireworks", link |-> "fireworks", package |-> "langchain-fireworks", apiLink |-> "https://api.python.langchain.com/en/latest/embeddings/langchain_fireworks.embeddings.FireworksEmbeddings.html#langchain_fireworks.embeddings.FireworksEmbeddings"],
          [name |-> "MistralAI", link |-> "mistralai", package |-> "langchain-mistralai", apiLink |-> "https://api.python.langchain.com/en/latest/embeddings/langchain_mistralai.embeddings.MistralAIEmbeddings.html#langchain_mistralai.embeddings.MistralAIEmbeddings"],
          [name |-> "Cohere", link |-> "cohere", package |-> "langchain-cohere", apiLink |-> "https://api.python.langchain.com/en/latest/embeddings/langchain_cohere.embeddings.CohereEmbeddings.html#langchain_cohere.embeddings.CohereEmbeddings"],
          [name |-> "Nomic", link |-> "cohere", package |-> "langchain-nomic", apiLink |-> "https://api.python.langchain.com/en/latest/embeddings/langchain_nomic.embeddings.NomicEmbeddings.html#langchain_nomic.embeddings.NomicEmbeddings"]
        >> ],
    document_retrievers |->
      [ link |-> "docs/integrations/retrievers",
        columns |-> <<
          [title |-> Text("Retriever"), formatter |-> FmtLink("link", "name")],
          [title |-> Text("Self-host"), formatter |-> FmtCond("selfHost", "U+2705", "U+274C")],
          [title |-> Text("Cloud offering"), formatter |-> FmtCond("cloudOffering", "U+2705", "U+274C")],
          [title |-> Text("Package"), formatter |-> FmtLink("apiLink", "package")]
        >>,
        items |-> <<
          [name |-> "AmazonKnowledgeBasesRetriever", link |-> "bedrock", selfHost |-> FALSE, cloudOffering |-> TRUE, apiLink |-> "https://api.python.langchain.com/en/latest/retrievers/langchain_aws.retrievers.bedrock.AmazonKnowledgeBasesRetriever.html", package |-> "langchain_aws"],
          [name |-> "AzureAISearchRetriever", link |-> "azure_ai_search", selfHost |-> FALSE, cloudOffering |-> TRUE, apiLink |-> "https://api.python.langchain.com/en/latest/retrievers/langchain_community.retrievers.azure_ai_search.AzureAISearchRetriever.html", package |-> "langchain_community"],
          [name |-> "ElasticsearchRetriever", link |-> "elasticsearch_retriever", selfHost |-> TRUE, cloudOffering |-> TRUE, apiLink |-> "https://api.python.langchain.com/en/latest/retrievers/langchain_elasticsearch.retrievers.ElasticsearchRetriever.html", package |-> "langchain_elasticsearch"],
          [name |-> "MilvusCollectionHybridSearchRetriever", link |-> "milvus_hybrid_search", selfHost |-> TRUE, cloudOffering |-> FALSE, apiLink |-> "https://api.python.langchain.com/en/latest/retrievers/langchain_milvus.retrievers.milvus_hybrid_search.MilvusCollectionHybridSearchRetriever.html", package |-> "langchain_milvus"],
          [name |-> "VertexAISearchRetriever", link |-> "google_vertex_ai_search", selfHost |-> FALSE, cloudOffering |-> TRUE, apiLink |-> "https://api.python.langchain.com/en/latest/vertex_ai_search/langchain_google_community.vertex_ai_search.VertexAISearchRetriever.html", package |-> "langchain_google_community"]
        >> ],
    external_retrievers |->
      [ link |-> "docs/integrations/retrievers",
        columns |-> <<
          [title |-> Text("Retriever"), formatter |-> FmtLink("link", "name")],
          [title |-> Text("Source"), formatter |-> FmtField("source")],
          [title |-> Text("Package"), formatter |-> FmtLink("apiLink", "package")]
        >>,
        items |-> <<
          [name |-> "ArxivRetriever", link |-> "arxiv", source |-> "<>Scholarly articles on <a href=\"https://arxiv.org/\">arxiv.org</a></>", apiLink |-> "https://api.python.langchain.com/en/latest/retrievers/langchain_community.retrievers.arxiv.ArxivRetriever.html", package |-> "langchain_community"],
          [name |-> "TavilySearchAPIRetriever", link |-> "tavily", source |-> "Internet search", apiLink |-> "https://api.python.langchain.com/en/latest/retrievers/langchain_community.retrievers.tavily_search_api.TavilySearchAPIRetriever.html", package |-> "langchain_community"],
          [name |-> "WikipediaRetriever", link |-> "wikipedia", source |-> "<><a href=\"https://www.wikipedia.org/\">Wikipedia</a> articles</>", apiLink |-> "https://api.python.langchain.com/en/latest/retrievers/langchain_community.retrievers.wikipedia.WikipediaRetriever.html", package |-> "langchain_community"]
        >> ],
    document_loaders |->
      [ link |-> "docs/integrations/loaders",
        columns |-> <<>>,
        items |-> <<>> ],
    cloud_provider_loaders |->
      [ link |-> "docs/integrations/loaders",
        columns |-> <<
          [title |-> Text("Document Loader"), formatter |-> FmtLink("link", "name")],
          [title |-> Text("Description"), formatter |-> FmtField("source")],
          [title |-> Text("Partner Package"), formatter |-> FmtCond("partnerPackage", "U+2705", "U+274C")],
          [title |-> Text("API reference"), formatter |-> FmtLink("apiLink", "loaderName")]
        >>,
        items |-> <<
          [name |-> "AWS S3 Directory", link |-> "aws_s3_directory", source |-> "Load documents from an AWS S3 directory", partnerPackage |-> FALSE, loaderName |-> "S3DirectoryLoader", apiLink |-> "https://api.python.langchain.com/en/latest/document_loaders/langchain_community.document_loaders.s3_directory.S3DirectoryLoader.html"],
          [name |-> "AWS S3 File", link |-> "aws_s3_file", source |-> "Load documents from an AWS S3 file", partnerPackage |-> FALSE, loaderName |-> "S3FileLoader", apiLink |-> "https://api.python.langchain.com/en/latest/document_loaders/langchain_community.document_loaders.s3_file.S3FileLoader.html"],
          [name |-> "Azure AI Data", link |-> "azure_ai_data", source |-> "Load documents from Azure AI services", partnerPackage |-> FALSE, loaderName |-> "AzureAIDataLoader", apiLink |-> "https://api.python.langchain.com/en/latest/document_loaders/langchain_community.document_loaders.azure_ai_data.AzureAIDataLoader.html"],
          [name |-> "Azure Blob Storage Container", link |-> "azure_blob_storage_container", source |-> "Load documents from an Azure Blob Storage container", partnerPackage |-> FALSE, loaderName |-> "AzureBlobStorageContainerLoader", apiLink |-> "https://api.python.langchain.com/en/latest/document_loaders/langchain_community.document_loaders.azure_blob_storage_container.AzureBlobStorageContainerLoader.html"],
          [name |-> "Azure Blob Storage File", link |-> "azure_blob_storage_file", source |-> "Load documents from an Azure Blob Storage file", partnerPackage |-> FALSE, loaderName |-> "AzureBlobStorageFileLoader", apiLink |-> "https://api.python.langchain.com/en/latest/document_loaders/langchain_community.document_loaders.azure_blob_storage_file.AzureBlobStorageFileLoader.html"],
          [name |-> "Dropbox", link |-> "dropbox", source |-> "Load documents from Dropbox", partnerPackage |-> FALSE, loaderName |-> "DropboxLoader", apiLink |-> "https://api.python.langchain.com/en/latest/document_loaders/langchain_community.document_loaders.dropbox.DropboxLoader.html"],
          [name |-> "Google Cloud Storage Directory", link |-> "google_cloud_storage_directory", source |-> "Load documents from GCS bucket", partnerPackage |-> TRUE, loaderName |-> "GCSDirectoryLoader", apiLink |-> "https://api.python.langchain.com/en/latest/gcs_directory/langchain_google_community.gcs_directory.GCSDirectoryLoader.html"],
          [name |-> "Google Cloud Storage File", link |-> "google_cloud_storage_file", source |-> "Load documents from GCS file object", partnerPackage |-> TRUE, loaderName |-> "GCSFileLoader", apiLink |-> "https://api.python.langchain.com/en/latest/gcs_file/langchain_google_community.gcs_file.GCSFileLoader.html"],
          [name |-> "Google Drive", link |-> "google_drive", source |-> "Load documents from Google Drive (Google Docs only)", partnerPackage |-> TRUE, loaderName |-> "GoogleDriveLoader", apiLink |-> "https://api.python.langchain.com/en/latest/drive/langchain_google_community.drive.GoogleDriveLoader.html"],
          [name |-> "Huawei OBS Directory", link |-> "huawei_obs_directory", source |-> "Load documents from Huawei Object Storage Service Directory", partnerPackage |-> FALSE, loaderName |-> "OBSDirectoryLoader", apiLink |-> "https://api.python.langchain.com/en/latest/document_loaders/langchain_community.document_loaders.obs_directory.OBSDirectoryLoader.html"],
          [name |-> "Huawei OBS File", link |-> "huawei_obs_file", source |-> "Load documents from Huawei Object Storage Service File", partnerPackage |-> FALSE, loaderName |-> "OBSFileLoader", apiLink |-> "https://api.python.langchain.com/en/latest/document_loaders/langchain_community.document_loaders.obs_file.OBSFileLoader.html"],
          [name |-> "Microsoft OneDrive", link |-> "microsoft_onedrive", source |-> "Load documents from Microsoft OneDrive", partnerPackage |-> FALSE, loaderName |-> "OneDriveLoader", apiLink |-> "https://api.python.langchain.com/en/latest/document_loaders/langchain_community.document_loaders.onedrive.OneDriveLoader.html"],
          [name |-> "Microsoft SharePoint", link |-> "microsoft_sharepoint", source |-> "Load documents from Microsoft SharePoint", partnerPackage |-> FALSE, loaderName |-> "SharePointLoader", apiLink |-> "https://api.python.langchain.com/en/latest/document_loaders/langchain_community.document_loaders.sharepoint.SharePointLoader.html"],
          [name |-> "Tencent COS Directory", link |-> "tencent_cos_directory", source |-> "Load documents from Tencent Cloud Object Storage Directory", partnerPackage |-> FALSE, loaderName |-> "TencentCOSDirectoryLoader", apiLink |-> "https://api.python.langchain.com/en/latest/document_loaders/langchain_community.document_loaders.tencent_cos_directory.TencentCOSDirectoryLoader.html"],
          [name |-> "Tencent COS File", link |-> "tencent_cos_file", source |-> "Load documents from Tencent Cloud Object Storage File", partnerPackage |-> FALSE, loaderName |-> "TencentCOSFileLoader", apiLink |-> "https://api.python.langchain.com/en/latest/document_loaders/langchain_community.document_loaders.tencent_cos_file.TencentCOSFileLoader.html"]
        >> ],
    messaging_loaders |->
      [ link |-> "docs/integrations/loaders",
        columns |-> <<
          [title |-> Text("Document Loader"), formatter |-> FmtLink("link", "name")],
          [title |-> Text("API reference"), formatter |-> FmtLink("apiLink", "loaderName")]
        >>,
        items |-> <<
          [name |-> "Telegram", link |-> "telegram", loaderName |-> "TelegramChatFileLoader", apiLink |-> "https://api.python.langchain.com/en/latest/document_loaders/langchain_community.document_loaders.telegram.TelegramChatFileLoader.html"],
          [name |-> "WhatsApp", link |-> "whatsapp_chat", loaderName |-> "WhatsAppChatLoader", apiLink |-> "https://api.python.langchain.com/en/latest/chat_loaders/langchain_community.chat_loaders.whatsapp.WhatsAppChatLoader.html"],
          [name |-> "Discord", link |-> "discord", loaderName |-> "DiscordChatLoader", apiLink |-> "https://api.python.langchain.com/en/latest/document_loaders/langchain_community.document_loaders.discord.DiscordChatLoader.html"],
          [name |-> "Facebook Chat", link |-> "facebook_chat", loaderName |-> "FacebookChatLoader", apiLink |-> "https://api.python.langchain.com/en/latest/document_loaders/langchain_community.document_loaders.facebook_chat.FacebookChatLoader.html"],
          [name |-> "Mastodon", link |-> "mastodon", loaderName |-> "MastodonTootsLoader", apiLink |-> "https://api.python.langchain.com/en/latest/document_loaders/langchain_community.document_loaders.mastodon.MastodonTootsLoader.html"]
        >> ],
    productivity_loaders |->
      [ link |-> "docs/integrations/loaders",
        columns |-> <<
          [title |-> Text("Document Loader"), formatter |-> FmtLink("link", "name")],
          [title |-> Text("API reference"), formatter |-> FmtLink("apiLink", "loaderName")]
        >>,
        items |-> <<
          [name |-> "Figma", link |-> "figma", loaderName |-> "FigmaFileLoader", apiLink |-> "https://api.python.langchain.com/en/latest/document_loaders/langchain_community.document_loaders.figma.FigmaFileLoader.html"],
          [name |-> "Notion", link |-> "notion", loaderName |-> "NotionDirectoryLoader", apiLink |-> "https://api.python.langchain.com/en/latest/document_loaders/langchain_community.document_loaders.notion.NotionDirectoryLoader.html"],
          [name |-> "Slack", link |-> "slack", loaderName |-> "SlackDirectoryLoader", apiLink |-> "https://api.python.langchain.com/en/latest/document_loaders/langchain_community.document_loaders.slack_directory.SlackDirectoryLoader.html"],
          [name |-> "Quip", link |-> "quip", loaderName |-> "QuipLoader", apiLink |-> "https://api.python.langchain.com/en/latest/document_loaders/langchain_community.document_loaders.quip.QuipLoader.html"],
          [name |-> "Trello", link |-> "trello", loaderName |-> "TrelloLoader", apiLink |-> "https://api.python.langchain.com/en/latest/document_loaders/langchain_community.document_loaders.trello.TrelloLoader.html"],
          [name |-> "Roam", link |-> "roam", loaderName |-> "RoamLoader", apiLink |-> "https://api.python.langchain.com/en/latest/document_loaders/langchain_community.document_loaders.roam.RoamLoader.html"],
          [name |-> "GitHub", link |-> "github", loaderName |-> "GithubFileLoader", apiLink |-> "https://api.python.langchain.com/en/latest/document_loaders/langchain_community.document_loaders.github.GithubFileLoader.html"]
        >> ],
    social_loaders |->
      [ link |-> "docs/integrations/loaders",
        columns |-> <<
          [title |-> Text("Document Loader"), formatter |-> FmtLink("link", "name")],
          [title |-> Text("API reference"), formatter |-> FmtLink("apiLink", "loaderName")]
        >>,
        items |-> <<
          [name |-> "Twitter", link |-> "twitter", loaderName |-> "TwitterTweetLoader", apiLink |-> "https://api.python.langchain.com/en/latest/document_loaders/langchain_community.document_loaders.twitter.TwitterTweetLoader.html"],
          [name |-> "Reddit", link |-> "RedditPostsLoader", loaderName |-> "RedditPostsLoader", apiLink |-> "https://api.python.langchain.com/en/latest/document_loaders/langchain_community.document_loaders.reddit.RedditPostsLoader.html"]
        >> ],
    webpage_loaders |->
      [ link |-> "docs/integrations/loaders",
        columns |-> <<
          [title |-> Text("Document Loader"), formatter |-> FmtLink("link", "name")],
          [title |-> Text("Description"), formatter |-> FmtField("source")],
          [title |-> Text("Package/API"), formatter |-> FmtField("api")]
        >>,
        items |-> <<
          [name |-> "Web", link |-> "web_base", source |-> "Uses urllib and BeautifulSoup to load and parse HTML web pages", api |-> "Package", apiLink |-> "https://api.python.langchain.com/en/latest/document_loaders/langchain_community.document_loaders.web_base.WebBaseLoader.html"],
          [name |-> "RecursiveURL", link |-> "recursive_url", source |-> "Recursively scrapes all child links from a root URL", api |-> "Package", apiLink |-> "https://api.python.langchain.com/en/latest/document_loaders/langchain_community.document_loaders.recursive_url_loader.RecursiveUrlLoader.html"],
          [name |-> "Sitemap", link |-> "sitemap", source |-> "Scrapes all pages on a given sitemap", api |-> "Package", apiLink |-> "https://api.python.langchain.com/en/latest/document_loaders/langchain_community.document_loaders.sitemap.SitemapLoader.html"],
          [name |-> "Firecrawl", link |-> "firecrawl", source |-> "API service that can be deployed locally, hosted version has free credits.", api |-> "API", apiLink |-> "https://api.python.langchain.com/en/latest/document_loaders/langchain_community.document_loaders.firecrawl.FireCrawlLoader.html"]
        >> ],
    pdf_loaders |->
      [ link |-> "docs/integrations/loaders",
        columns |-> <<
          [title |-> Text("Document Loader"), formatter |-> FmtLink("link", "name")],
          [title |-> Text("Description"), formatter |-> FmtField("source")],
          [title |-> Text("Package/API"), formatter |-> FmtField("api")]
        >>,
        items |-> <<
          [name |-> "PyPDF", link |-> "pypdfloader", source |-> "Uses `pypdf` to load and parse PDFs", api |-> "Package", apiLink |-> "https://api.python.langchain.com/en/latest/document_loaders/langchain_community.document_loaders.pdf.PyPDFLoader.html"],
          [name |-> "Unstructured", link |-> "unstructured_file", source |-> "Uses Unstructured's open source library to load PDFs", api |-> "Package", apiLink |-> "https://api.python.langchain.com/en/latest/document_loaders/langchain_unstructured.document_loaders.UnstructuredLoader.html"],
          [name |-> "Amazon Textract", link |-> "amazon_textract", source |-> "Uses AWS API to load PDFs", api |-> "API", apiLink |-> "https://api.python.langchain.com/en/latest/document_loaders/langchain_community.document_loaders.pdf.AmazonTextractPDFLoader.html"],
          [name |-> "MathPix", link |-> "mathpix", source |-> "Uses MathPix to laod PDFs", api |-> "Package", apiLink |-> "https://api.python.langchain.com/en/latest/document_loaders/langchain_community.document_loaders.pdf.MathpixPDFLoader.html"],
          [name |-> "PDFPlumber", link |-> "pdfplumber", source |-> "Load PDF files using PDFPlumber", api |-> "Package", apiLink |-> "https://api.python.langchain.com/en/latest/document_loaders/langchain_community.document_loaders.pdf.PDFPlumberLoader.html"],
          [name |-> "PyPDFDirectry", link |-> "pypdfdirectory", source |-> "Load a directory with PDF files", api |-> "Package", apiLink |-> "https://api.python.langchain.com/en/latest/document_loaders/langchain_community.document_loaders.pdf.PyPDFDirectoryLoader.html"],
          [name |-> "PyPDFium2", link |-> "pypdfium2", source |-> "Load PDF files using PyPDFium2", api |-> "Package", apiLink |-> "https://api.python.langchain.com/en/latest/document_loaders/langchain_community.document_loaders.pdf.PyPDFium2Loader.html"],
          [name |-> "UnstructuredPDFLoader", link |-> "unstructured_pdfloader", source |-> "Load PDF files using Unstructured", api |-> "Package", apiLink |-> "https://api.python.langchain.com/en/latest/document_loaders/langchain_community.document_loaders.pdf.UnstructuredPDFLoader.html"],
          [name |-> "PyMuPDF", link |-> "pymupdf", source |-> "Load PDF files using PyMuPDF", api |-> "Package", apiLink |-> "https://api.python.langchain.com/en/latest/document_loaders/langchain_community.document_loaders.pdf.PyMuPDFLoader.html"],
          [name |-> "PDFMiner", link |-> "pdfminer", source |-> "Load PDF files using PDFMiner", api |-> "Package", apiLink |-> "https://api.python.langchain.com/en/latest/document_loaders/langchain_community.document_loaders.pdf.PDFMinerLoader.html"]
        >> ],
    common_loaders |->
      [ link |-> "docs/integrations/loaders",
        columns |-> <<
          [title |-> Text("Document Loader"), formatter |-> FmtLink("link", "name")],
          [title |-> Text("Data Type"), formatter |-> FmtField("source")]
        >>,
        items |-> <<
          [name |-> "CSVLoader", link |-> "csv", source |-> "CSV files", apiLink |-> "https://api.python.langchain.com/en/latest/document_loaders/langchain_community.document_loaders.csv_loader.CSVLoader.html"],
          [name |-> "DirectoryLoader", link |-> "../../how_to/document_loader_directory", source |-> "All files in a given directory", apiLink |-> "https://api.python.langchain.com/en/latest/document_loaders/langchain_community.document_loaders.directory.DirectoryLoader.html"],
          [name |-> "Unstructured", link |-> "unstructured_file", source |-> "All file types", apiLink |-> "https://api.python.langchain.com/en/latest/document_loaders/langchain_unstructured.document_loaders.UnstructuredLoader.html"],
          [name |-> "JSONLoader", link |-> "json", source |-> "JSON files", apiLink |-> "https://api.python.langchain.com/en/latest/document_loaders/langchain_community.document_loaders.json_loader.JSONLoader.html"],
          [name |-> "UnstructuredMarkdownLoader", link |-> "unstructured_markdown", source |-> "Markdown files", apiLink |-> "https://api.python.langchain.com/en/latest/document_loaders/langchain_community.document_loaders.markdown.UnstructuredMarkdownLoader.html"],
          [name |-> "BSHTMLLoader", link |-> "bshtml", source |-> "HTML files", apiLink |-> "https://api.python.langchain.com/en/latest/document_loaders/langchain_community.document_loaders.html_bs.BSHTMLLoader.html"],
          [name |-> "UnstrucutredXMLLoader", link |-> "xml", source |-> "XML files", apiLink |-> "https://api.python.langchain.com/en/latest/document_loaders/langchain_community.document_loaders.xml.UnstructuredXMLLoader.html"]
        >> ],
    vectorstores |->
      [ link |-> "docs/integrations/vectorstores",
        columns |-> <<
          [title |-> Text("Vectorstore"), formatter |-> FmtLink("link", "name")],
          [title |-> Text("Delete by ID"), formatter |-> FmtCond("deleteById", "U+2705", "U+274C")],
          [title |-> Text("Filtering"), formatter |-> FmtCond("filtering", "U+2705", "U+274C")],
          [title |-> Text("Search by Vector"), formatter |-> FmtCond("searchByVector", "U+2705", "U+274C")],
          [title |-> Text("Search with score"), formatter |-> FmtCond("searchWithScore", "U+2705", "U+274C")],
          [title |-> Text("Async"), formatter |-> FmtCond("async", "U+2705", "U+274C")],
          [title |-> Text("Passes Standard Tests"), formatter |-> FmtCond("passesStandardTests", "U+2705", "U+274C")],
          [title |-> Text("Multi Tenancy"), formatter |-> FmtCond("multiTenancy", "U+2705", "U+274C")],
          [title |-> Text("IDs in add Documents"), formatter |-> FmtCond("idsInAddDocuments", "U+2705", "U+274C")],
          [title |-> Text("Local/Cloud"), formatter |-> FmtCond("local", "Local", "Cloud")]
        >>,
        items |-> <<
          [name |-> "AstraDBVectorStore", link |-> "astradb", deleteById |-> TRUE, filtering |-> TRUE, searchByVector |-> TRUE, searchWithScore |-> TRUE, async |-> TRUE, passesStandardTests |-> FALSE, multiTenancy |-> FALSE, local |-> TRUE, idsInAddDocuments |-> FALSE],
          [name |-> "Chroma", link |-> "chroma", deleteById |-> TRUE, filtering |-> TRUE, searchByVector |-> TRUE, searchWithScore |-> TRUE, async |-> TRUE, passesStandardTests |-> FALSE, multiTenancy |-> FALSE, local |-> TRUE, idsInAddDocuments |-> FALSE],
          [name |-> "Clickhouse", link |-> "clickhouse", deleteById |-> TRUE, filtering |-> TRUE, searchByVector |-> FALSE, searchWithScore |-> TRUE, async |-> FALSE, passesStandardTests |-> FALSE, multiTenancy |-> FALSE, local |-> TRUE, idsInAddDocuments |-> FALSE],
          [name |-> "CouchbaseVectorStore", link |-> "couchbase", deleteById |-> TRUE, filtering |-> TRUE, searchByVector |-> FALSE, searchWithScore |-> TRUE, async |-> TRUE, passesStandardTests |-> FALSE, multiTenancy |-> FALSE, local |-> TRUE, idsInAddDocuments |-> FALSE],
          [name |-> "ElasticsearchStore", link |-> "elasticsearch", deleteById |-> TRUE, filtering |-> TRUE, searchByVector |-> TRUE, searchWithScore |-> FALSE, async |-> TRUE, passesStandardTests |-> FALSE, multiTenancy |-> FALSE, local |-> TRUE, idsInAddDocuments |-> FALSE],
          [name |-> "FAISS", link |-> "faiss", deleteById |-> TRUE, filtering |-> TRUE, searchByVector |-> TRUE, searchWithScore |-> TRUE, async |-> TRUE, passesStandardTests |-> FALSE, multiTenancy |-> FALSE, local |-> TRUE, idsInAddDocuments |-> FALSE],
          [name |-> "InMemoryVectorStore", link |-> "in_memory", deleteById |-> TRUE, filtering |-> TRUE, searchByVector |-> FALSE, searchWithScore |-> TRUE, async |-> TRUE, passesStandardTests |-> FALSE, multiTenancy |-> FALSE, local |-> TRUE, idsInAddDocuments |-> FALSE],
          [name |-> "Milvus", link |-> "milvus", deleteById |-> TRUE, filtering |-> TRUE, searchByVector |-> FALSE, searchWithScore |-> TRUE, async |-> TRUE, passesStandardTests |-> FALSE, multiTenancy |-> FALSE, local |-> TRUE, idsInAddDocuments |-> FALSE],
          [name |-> "MongoDBAtlasVectorSearch", link |-> "mongodb_atlas", deleteById |-> TRUE, filtering |-> TRUE, searchByVector |-> FALSE, searchWithScore |-> FALSE, async |-> TRUE, passesStandardTests |-> FALSE, multiTenancy |-> FALSE, local |-> TRUE, idsInAddDocuments |-> FALSE],
          [name |-> "PGVector", link |-> "pg_vector", deleteById |-> TRUE, filtering |-> TRUE, searchByVector |-> TRUE, searchWithScore |-> TRUE, async |-> TRUE, passesStandardTests |-> FALSE, multiTenancy |-> FALSE, local |-> TRUE, idsInAddDocuments |-> FALSE],
          [name |-> "PineconeVectorStore", link |-> "pinecone", deleteById |-> TRUE, filtering |-> TRUE, searchByVector |-> TRUE, searchWithScore |-> FALSE, async |-> TRUE, passesStandardTests |-> FALSE, multiTenancy |-> FALSE, local |-> TRUE, idsInAddDocuments |-> FALSE],
          [name |-> "QdrantVectorStore", link |-> "qdrant", deleteById |-> TRUE, filtering |-> TRUE, searchByVector |-> TRUE, searchWithScore |-> TRUE, async |-> TRUE, passesStandardTests |-> FALSE, multiTenancy |-> FALSE, local |-> TRUE, idsInAddDocuments |-> FALSE],
          [name |-> "Redis", link |-> "redis", deleteById |-> TRUE, filtering |-> TRUE, searchByVector |-> TRUE, searchWithScore |-> TRUE, async |-> TRUE, passesStandardTests |-> FALSE, multiTenancy |-> FALSE, local |-> TRUE, idsInAddDocuments |-> FALSE]
        >> ] ]

DEPRECATED_DOC_IDS ==
  << "integrations/chat/anthropic_functions",
     "integrations/chat/ernie",
     "integrations/chat/ollama_functions",
     "integrations/document_loaders/airbyte_cdk",
     "integrations/document_loaders/airbyte_gong",
     "integrations/document_loaders/airbyte_hubspot",
     "integrations/document_loaders/airbyte_json",
     "integrations/document_loaders/airbyte_salesforce",
     "integrations/document_loaders/airbyte_shopify",
     "integrations/document_loaders/airbyte_stripe",
     "integrations/document_loaders/airbyte_typeform",
     "integrations/document_loaders/airbyte_zendesk_support",
     "integrations/llms/anthropic",
     "integrations/text_embedding/ernie" >>

\* Members every object literal inherits from Object.prototype: a lookup
\* FEATURE_TABLES[key] with such a key yields the inherited member, which has
\* neither `columns` nor `items`.
ObjectPrototype ==
  [ constructor |-> [name |-> "Object"],
    toString |-> [name |-> "toString"] ]

\* obj[key] on an object literal (own keys first, then Object.prototype).
Prop(obj, key) ==
  IF key \in DOMAIN obj THEN Some(obj[key])
  ELSE IF key \in DOMAIN ObjectPrototype THEN Some(ObjectPrototype[key])
  ELSE undefined

----------------------------------------------------------------------------
\* Completions of a call: a returned value or a thrown error.

Return(v) == [threw |-> FALSE, error |-> undefined, value |-> Some(v)]

Throw(e) == [threw |-> TRUE, error |-> Some(e), value |-> undefined]

\* Reading property `prop` of undefined.
TypeError(prop) ==
  [name |-> "TypeError",
   message |-> "Cannot read properties of undefined (reading '" \o prop \o "')"]

Error(message) == [name |-> "Error", message |-> message]

----------------------------------------------------------------------------
\* Pure functions of the file

Min(S) == CHOOSE k \in S : \A m \in S : k <= m

\* str.substring(0, end): the first `end` characters (all of str if shorter).
substring(str, end) ==
  SubSeq(str, 1, IF end < 0 THEN 0 ELSE IF end > Len(str) THEN Len(str) ELSE end)

\* str.endsWith(suffix)
endsWith(str, suffix) ==
  /\ Len(str) >= Len(suffix)
  /\ SubSeq(str, Len(str) - Len(suffix) + 1, Len(str)) = suffix

\* Variant of includes: an element matches when v starts with it
\* (array.some((d) => v.startsWith(d))).
includes_startsWith(array, v) ==
  /\ v # undefined
  /\ \E k \in 1..Len(array) :
       /\ Len(v[1]) >= Len(array[k])
       /\ SubSeq(v[1], 1, Len(array[k])) = array[k]

\* array.includes(v) for an array of strings and a string-or-undefined v.
includes(array, v) ==
  /\ v # undefined
  /\ \E k \in 1..Len(array) : array[k] = v[1]

\* Variant of find: the callback assigns (i.name = item) instead of comparing,
\* so the first item passes whenever the name is a non-empty string.
find_assign(items, item) ==
  IF Len(items) = 0 \/ item = "" THEN undefined
  ELSE Some([k \in DOMAIN items[1] \cup {"name"} |->
               IF k = "name" THEN item ELSE items[1][k]])

\* items.find((i) => i.name === item)
find(items, item) ==
  LET hits == {k \in 1..Len(items) : Get(items[k], "name") = Some(item)}
  IN  IF hits = {} THEN undefined ELSE Some(items[Min(hits)])

\* Variant of truncate: the test is >= instead of >.
truncate_atLimit(str, n) ==
  IF Len(str) >= n THEN substring(str, n - 1) \o "..." ELSE str

\* Variant of truncate: the cut is at n instead of n - 1.
truncate_cutAtN(str, n) ==
  IF Len(str) > n THEN substring(str, n) \o "..." ELSE str

\* Variant of truncate: the marker is appended to the whole string.
truncate_appendOnly(str, n) ==
  IF Len(str) > n THEN str \o "..." ELSE str

\* Variant of truncate: the cut drops the last character of the string
\* (str.substring(0, str.length - 1)) instead of cutting at n - 1.
truncate_dropLast(str, n) ==
  IF Len(str) > n THEN substring(str, Len(str) - 1) \o "..." ELSE str

truncate(str, n) ==
  IF Len(str) > n THEN substring(str, n - 1) \o "..." ELSE str

\* Variant of formatter: the indicator tests item.field === false, so only an
\* explicit false renders the negative indicator.
formatter_strictFalse(col, item) ==
  LET f == col.formatter
  IN  CASE f.kind = "a" -> A(Get(item, f.field), Get(item, f.child))
        [] f.kind = "cond" ->
             Text(IF Get(item, f.field) = Some(FALSE) THEN f.no ELSE f.yes)
        [] f.kind = "field" ->
             [tag |-> "#text", href |-> undefined, children |-> Get(item, f.field)]
        [] f.kind = "truncate" ->
             Text(truncate(Nullish(Get(item, f.field), ""), f.limit))

\* Variant of formatter: the description is put into a template string
\* instead of being defaulted with ?? "", so undefined reads "undefined".
formatter_template(col, item) ==
  LET f == col.formatter
  IN  CASE f.kind = "a" -> A(Get(item, f.field), Get(item, f.child))
        [] f.kind = "cond" ->
             Text(IF Truthy(Get(item, f.field)) THEN f.yes ELSE f.no)
        [] f.kind = "field" ->
             [tag |-> "#text", href |-> undefined, children |-> Get(item, f.field)]
        [] f.kind = "truncate" ->
             Text(truncate(Nullish(Get(item, f.field), "undefined"), f.limit))

\* col.formatter(item)
formatter(col, item) ==
  LET f == col.formatter
  IN  CASE f.kind = "a" -> A(Get(item, f.field), Get(item, f.child))
        [] f.kind = "cond" ->
             Text(IF Truthy(Get(item, f.field)) THEN f.yes ELSE f.no)
        [] f.kind = "field" ->
             [tag |-> "#text", href |-> undefined, children |-> Get(item, f.field)]
        [] f.kind = "truncate" ->
             Text(truncate(Nullish(Get(item, f.field), ""), f.limit))

\* Variant of toTable: the row loop stops one item early.
toTable_shortLoop(columns, items) ==
  [ thead |-> [j \in 1..Len(columns) |-> columns[j].title],
    tbody |-> [i \in 1..Len(items) - 1 |->
                 [j \in 1..Len(columns) |-> formatter(columns[j], items[i])]] ]

\* Variant of toTable: the cells of a row are laid out last column first.
toTable_cellsReversed(columns, items) ==
  [ thead |-> [j \in 1..Len(columns) |-> columns[j].title],
    tbody |-> [i \in 1..Len(items) |->
                 [j \in 1..Len(columns) |->
                    formatter(columns[Len(columns) + 1 - j], items[i])]] ]

\* Variant of toTable: a module-level counter of the tables rendered so far
\* is shown in a trailing header cell.
toTable_renderCount(columns, items) ==
  [ thead |-> [j \in 1..Len(columns) + 1 |->
                 IF j <= Len(columns) THEN columns[j].title
                 ELSE Text(ToString(Len(history)))],
    tbody |-> [i \in 1..Len(items) |->
                 [j \in 1..Len(columns) |-> formatter(columns[j], items[i])]] ]

\* The <table>: thead holds one <th> per column, tbody one <tr> per item with
\* one <td> per column.
toTable(columns, items) ==
  LET headers == [j \in 1..Len(columns) |-> columns[j].title]
  IN  [ thead |-> [j \in 1..Len(headers) |-> headers[j]],
        tbody |-> [i \in 1..Len(items) |->
                     [j \in 1..Len(columns) |-> formatter(columns[j], items[i])]] ]

\* Variant of CategoryTable: cat?.columns ?? [] and cat?.items ?? [].
CategoryTable_optional(category) ==
  LET cat == Prop(tables, category)
      columns == IF cat = undefined THEN undefined ELSE Get(cat[1], "columns")
      items == IF cat = undefined THEN undefined ELSE Get(cat[1], "items")
  IN  Return(toTable(Nullish(columns, <<>>), Nullish(items, <<>>)))

\* Variant of CategoryTable: a category without items is rejected like a
\* missing one (if (!cat?.items?.length) throw ...).
CategoryTable_requireItems(category) ==
  LET cat == Prop(tables, category)
  IN  IF cat = undefined THEN Throw(TypeError("columns"))
      ELSE LET columns == Get(cat[1], "columns")
               items == Get(cat[1], "items")
           IN  IF items = undefined \/ Len(items[1]) = 0
               THEN Throw(TypeError("columns"))
               ELSE Return(toTable(columns[1], items[1]))

CategoryTable(category) ==
  LET cat == Prop(tables, category)
  IN  IF cat = undefined THEN Throw(TypeError("columns"))
      ELSE LET columns == Get(cat[1], "columns")
               items == Get(cat[1], "items")
           IN  IF columns = undefined THEN Throw(TypeError("map"))
               ELSE Return(toTable(columns[1], items[1]))

\* Variant of ItemTable: a missing row is rendered as a table without rows.
ItemTable_silent(category, item) ==
  LET cat == Prop(tables, category)
  IN  IF cat = undefined THEN Throw(TypeError("items"))
      ELSE LET items == Get(cat[1], "items")
           IN  IF items = undefined THEN Throw(TypeError("find"))
               ELSE LET row == find(items[1], item)
                    IN  Return(toTable(cat[1].columns,
                                       IF row = undefined THEN <<>> ELSE <<row[1]>>))

\* Variant of ItemTable: the lookup is cat?.items ?? [], so a missing category
\* reads as a category without items.
ItemTable_optional(category, item) ==
  LET cat == Prop(tables, category)
      items == IF cat = undefined THEN undefined ELSE Get(cat[1], "items")
      row == find(Nullish(items, <<>>), item)
  IN  IF row = undefined
      THEN Throw(Error("Item " \o item \o " not found in category " \o category))
      ELSE Return(toTable(cat[1].columns, <<row[1]>>))

\* Variant of ItemTable: the row is rendered without the first column of the
\* category (columns.slice(1)).
ItemTable_sliceColumns(category, item) ==
  LET cat == Prop(tables, category)
  IN  IF cat = undefined THEN Throw(TypeError("items"))
      ELSE LET items == Get(cat[1], "items")
           IN  IF items = undefined THEN Throw(TypeError("find"))
               ELSE LET row == find(items[1], item)
                    IN  IF row = undefined
                        THEN Throw(Error("Item " \o item \o " not found in category "
                                         \o category))
                        ELSE Return(toTable(Tail(cat[1].columns), <<row[1]>>))

\* Variant of ItemTable: a name the category does not hold is looked up in
\* the other categories of the registry.
ItemTable_anyCategory(category, item) ==
  LET cat == Prop(tables, category)
  IN  IF cat = undefined THEN Throw(TypeError("items"))
      ELSE LET items == Get(cat[1], "items")
           IN  IF items = undefined THEN Throw(TypeError("find"))
               ELSE LET row == find(items[1], item)
                        others == {c \in DOMAIN tables :
                                     find(tables[c].items, item) # undefined}
                    IN  IF row # undefined
                        THEN Return(toTable(cat[1].columns, <<row[1]>>))
                        ELSE IF others # {}
                        THEN LET c == CHOOSE c \in others : TRUE
                             IN  Return(toTable(tables[c].columns,
                                                <<find(tables[c].items, item)[1]>>))
                        ELSE Throw(Error("Item " \o item \o " not found in category "
                                         \o category))

ItemTable(category, item) ==
  LET cat == Prop(tables, category)
  IN  IF cat = undefined THEN Throw(TypeError("items"))
      ELSE LET items == Get(cat[1], "items")
           IN  IF items = undefined THEN Throw(TypeError("find"))
               ELSE LET row == find(items[1], item)
                    IN  IF row = undefined
                        THEN Throw(Error("Item " \o item \o " not found in category "
                                         \o category))
                        ELSE Return(toTable(cat[1].columns, <<row[1]>>))

\* useDocById(id) of the docs plugin: undefined for a missing id, the document
\* registered under id, and an error when no document has that id.
useDocById(docs, id) ==
  IF id = undefined \/ id = Some("") THEN Return(undefined)
  ELSE IF id[1] \in DOMAIN docs THEN Return(Some(docs[id[1]]))
  ELSE Throw(Error("no version doc found by id=" \o id[1]))

\* Variant of filter: the two tests are joined by || instead of &&.
filter_or(items) ==
  LET keep(item) ==
        \/ ~ (Get(item, "docId") # undefined /\ endsWith(item.docId, "/index"))
        \/ ~ includes(deprecated, Get(item, "docId"))
  IN  SelectSeq(items, keep)

\* Variant of filter: the kept entries come out in reverse order.
filter_reversed(items) ==
  LET keep(item) ==
        /\ ~ (Get(item, "docId") # undefined /\ endsWith(item.docId, "/index"))
        /\ ~ includes(deprecated, Get(item, "docId"))
      kept == SelectSeq(items, keep)
  IN  [k \in 1..Len(kept) |-> kept[Len(kept) + 1 - k]]

\* Variant of filter: an entry is kept only if it has a docId
\* (item.docId && ... in front of the two tests).
filter_requireDocId(items) ==
  LET keep(item) ==
        /\ Get(item, "docId") # undefined
        /\ ~ endsWith(item.docId, "/index")
        /\ ~ includes(deprecated, Get(item, "docId"))
  IN  SelectSeq(items, keep)

\* The filter of IndexTable: the entries it keeps.
filter(items) ==
  LET keep(item) ==
        /\ ~ (Get(item, "docId") # undefined /\ endsWith(item.docId, "/index"))
        /\ ~ includes(deprecated, Get(item, "docId"))
  IN  SelectSeq(items, keep)

\* {...item, description: doc?.description}
withDescription(item, doc) ==
  LET description == IF doc = undefined THEN undefined ELSE Get(doc[1], "description")
  IN  IF description = undefined
      THEN [k \in DOMAIN item \ {"description"} |-> item[k]]
      ELSE [k \in DOMAIN item \cup {"description"} |->
              IF k = "description" THEN description[1] ELSE item[k]]

\* The two columns IndexTable hands to toTable.
IndexColumns ==
  << [title |-> Text("Name"), formatter |-> FmtLink("href", "label")],
     [title |-> Text("Description"), formatter |-> FmtTruncate("description", 70)] >>

\* Variant of IndexTable: the first table rendered is kept in a module-level
\* cache and handed out again by every later call.
IndexTable_cached(items, docs) ==
  LET earlier == {i \in 1..Len(history) :
                    /\ history[i].call.op = "IndexTable"
                    /\ ~ history[i].completion.threw}
      kept == filter(items)
      resolved == [k \in 1..Len(kept) |-> useDocById(docs, Get(kept[k], "docId"))]
      failed == {k \in 1..Len(kept) : resolved[k].threw}
      rows == [k \in 1..Len(kept) |-> withDescription(kept[k], resolved[k].value[1])]
  IN  IF earlier # {} THEN history[Min(earlier)].completion
      ELSE IF failed # {} THEN Throw(resolved[Min(failed)].error[1])
      ELSE Return(toTable(IndexColumns, rows))

\* Variant of IndexTable: every row is given the document of the first kept
\* entry.
IndexTable_firstDoc(items, docs) ==
  LET kept == filter(items)
      resolved == [k \in 1..Len(kept) |-> useDocById(docs, Get(kept[1], "docId"))]
      failed == {k \in 1..Len(kept) : resolved[k].threw}
      rows == [k \in 1..Len(kept) |-> withDescription(kept[k], resolved[k].value[1])]
  IN  IF failed # {} THEN Throw(resolved[Min(failed)].error[1])
      ELSE Return(toTable(IndexColumns, rows))

\* Variant of IndexTable: when a resolution fails, the rows resolved before it
\* are rendered.
IndexTable_partial(items, docs) ==
  LET kept == filter(items)
      resolved == [k \in 1..Len(kept) |-> useDocById(docs, Get(kept[k], "docId"))]
      failed == {k \in 1..Len(kept) : resolved[k].threw}
      done == IF failed = {} THEN Len(kept) ELSE Min(failed) - 1
      rows == [k \in 1..done |-> withDescription(kept[k], resolved[k].value[1])]
  IN  Return(toTable(IndexColumns, rows))

IndexTable(items, docs) ==
  LET kept == filter(items)
      resolved == [k \in 1..Len(kept) |-> useDocById(docs, Get(kept[k], "docId"))]
      failed == {k \in 1..Len(kept) : resolved[k].threw}
      rows == [k \in 1..Len(kept) |-> withDescription(kept[k], resolved[k].value[1])]
  IN  IF failed # {} THEN Throw(resolved[Min(failed)].error[1])
      ELSE Return(toTable(IndexColumns, rows))

----------------------------------------------------------------------------
\* The query-checking chain of how_to/sql_query_checking.ipynb (Python)

\* The marker the prompt asks the language model to put before its final
\* query.
FinalAnswerMarker == "Final answer: "

\* list[1] on a list that has one element.
IndexError == [name |-> "IndexError", message |-> "list index out of range"]

\* str.find(sep): the position (from 1) of the leftmost occurrence of sep in
\* str, 0 when there is none.
str_find(str, sep) ==
  LET hits == {i \in 1..Len(str) - Len(sep) + 1 : SubSeq(str, i, i + Len(sep) - 1) = sep}
  IN  IF hits = {} THEN 0 ELSE Min(hits)

\* str.split(sep): the pieces of str between the occurrences of sep, found
\* from the left and not overlapping; <<str>> when sep does not occur.
RECURSIVE split(_, _)
split(str, sep) ==
  LET i == str_find(str, sep)
  IN  IF i = 0 THEN << str >>
      ELSE << SubSeq(str, 1, i - 1) >>
             \o split(SubSeq(str, i + Len(sep), Len(str)), sep)

\* Variant of parse_final_answer: the last element of the split is returned
\* (output.split("Final answer: ")[-1]).
parse_final_answer_last(output) ==
  LET parts == split(output, FinalAnswerMarker)
  IN  Return(parts[Len(parts)])

\* Variant of parse_final_answer: output.partition("Final answer: ")[2], which
\* is the empty string when the marker does not occur.
parse_final_answer_partition(output) ==
  LET parts == split(output, FinalAnswerMarker)
  IN  IF Len(parts) > 1 THEN Return(parts[2]) ELSE Return("")

\* def parse_final_answer(output): return output.split("Final answer: ")[1]
parse_final_answer(output) ==
  LET parts == split(output, FinalAnswerMarker)
  IN  IF Len(parts) > 1 THEN Return(parts[2]) ELSE Throw(IndexError)

----------------------------------------------------------------------------
\* Inputs

Names(cat) == {cat.items[k].name : k \in 1..Len(cat.items)}

CategoryKeys ==
  DOMAIN FEATURE_TABLES
    \cup {"nonexistent", "Chat", "undefined", "constructor", "toString"}

ItemNames ==
  UNION {Names(FEATURE_TABLES[c]) : c \in DOMAIN FEATURE_TABLES}
    \cup {"nonexistent", "chatanthropic", ""}

\* Entries of a sidebar category as useCurrentSidebarCategory() returns them:
\* a landing page, a deprecated document, ordinary documents, identifiers that
\* only resemble a filtered one, and a link without docId.
SidebarEntries ==
  << [docId |-> "integrations/chat/index", href |-> "/docs/integrations/chat/",
      label |-> "Chat models"],
     [docId |-> "integrations/chat/ernie", href |-> "/docs/integrations/chat/ernie/",
      label |-> "ErnieBotChat"],
     [docId |-> "integrations/chat/anthropic",
      href |-> "/docs/integrations/chat/anthropic/", label |-> "ChatAnthropic"],
     [docId |-> "integrations/chat/ernie_bot",
      href |-> "/docs/integrations/chat/ernie_bot/", label |-> "Ernie Bot"],
     [docId |-> "Integrations/Chat/Ernie",
      href |-> "/docs/Integrations/Chat/Ernie/", label |-> "Ernie"],
     [docId |-> "integrations/chat/index/overview",
      href |-> "/docs/integrations/chat/index/overview/", label |-> "Overview"],
     [docId |-> "integrations/chat/reindex",
      href |-> "/docs/integrations/chat/reindex/", label |-> "Reindex"],
     [docId |-> "legacy/integrations/chat/ernie",
      href |-> "/docs/legacy/integrations/chat/ernie/", label |-> "Ernie (legacy)"],
     [href |-> "https://python.langchain.com/api_reference/", label |-> "API reference"] >>

SidebarLists ==
  UNION {[1..n -> {SidebarEntries[e] : e \in 1..Len(SidebarEntries)}] : n \in 0..MaxEntries}

Filler ==
  "The quick brown fox jumps over the lazy dog. "
    \o "Pack my box with five dozen liquor jugs. "
    \o "How vexingly quick daft zebras jump! "
    \o "Sphinx of black quartz, judge my vow."

\* What the document registry holds for one document: a description of the
\* given length, no description, or no document at all.
DocShapes ==
  << [doc |-> TRUE, desc |-> TRUE, len |-> 12],
     [doc |-> TRUE, desc |-> FALSE, len |-> 0],
     [doc |-> TRUE, desc |-> TRUE, len |-> 70],
     [doc |-> TRUE, desc |-> TRUE, len |-> 71],
     [doc |-> FALSE, desc |-> FALSE, len |-> 0],
     [doc |-> TRUE, desc |-> TRUE, len |-> 100],
     [doc |-> TRUE, desc |-> TRUE, len |-> 0] >>

DocIds == {e.docId : e \in {SidebarEntries[k] : k \in 1..Len(SidebarEntries) - 1}}

\* The e-th entry's document under registry variant v.
DocShape(e, v) == DocShapes[((e + v) % Len(DocShapes)) + 1]

\* Document registries: variant v gives neighbouring documents different
\* shapes and different description texts.
DocRegistry(v) ==
  LET present == {e \in 1..Len(SidebarEntries) - 1 : DocShape(e, v).doc}
  IN  [id \in {SidebarEntries[e].docId : e \in present} |->
         LET e == CHOOSE x \in present : SidebarEntries[x].docId = id
             s == DocShape(e, v)
         IN  IF s.desc
             THEN [id |-> id, description |-> substring(ToString(e) \o " " \o Filler, s.len)]
             ELSE [id |-> id]]

DocRegistries == {DocRegistry(v) : v \in 0..Len(DocShapes) - 1}

Strings == {substring(Filler, len) : len \in 0..MaxDescLen}

\* What an output of the language model is put together from: the marker,
\* a first draft in the format of the prompt, a query, and two texts that
\* only resemble the marker.
OutputPieces ==
  { FinalAnswerMarker,
    "First draft: SELECT 1;\n",
    "SELECT 2;",
    "Final answer:",
    "final answer: " }

RECURSIVE Concat(_)
Concat(pieces) ==
  IF pieces = <<>> THEN "" ELSE Head(pieces) \o Concat(Tail(pieces))

\* The outputs create_sql_query_chain may hand to parse_final_answer.
Outputs ==
  {Concat(pieces) : pieces \in UNION {[1..n -> OutputPieces] : n \in 0..MaxPieces}}

----------------------------------------------------------------------------
\* State machine.  JavaScript runs one call at a time: `call` is the call in
\* progress (its operation and arguments) and `completion` what it returned or
\* threw; both are empty between calls.  `history` is the record of the calls
\* completed so far, kept by the specification SpecSeq only.  `sidebar` is the
\* array useCurrentSidebarCategory() handed to the IndexTable call in progress,
\* as it is after the call (the array belongs to the navigation provider).

NoCall ==
  [op |-> "none", category |-> "", item |-> "", items |-> <<>>, docs |-> <<>>,
   str |-> "", n |-> 0, column |-> 0, object |-> undefined]

NoCompletion == [threw |-> FALSE, error |-> undefined, value |-> undefined]

\* Variant of Init: the registry holds one item of social_loaders twice.
Init_duplicateItem ==
  /\ tables = [FEATURE_TABLES EXCEPT !.social_loaders.items = Append(@, @[1])]
  /\ deprecated = DEPRECATED_DOC_IDS
  /\ call = NoCall
  /\ completion = NoCompletion
  /\ history = <<>>
  /\ sidebar = <<>>

Init ==
  /\ tables = FEATURE_TABLES
  /\ deprecated = DEPRECATED_DOC_IDS
  /\ call = NoCall
  /\ completion = NoCompletion
  /\ history = <<>>
  /\ sidebar = <<>>

RenderCategoryTable ==
  /\ call = NoCall
  /\ \E category \in CategoryKeys :
       /\ call' = [NoCall EXCEPT !.op = "CategoryTable", !.category = category]
       /\ completion' = CategoryTable(category)
  /\ UNCHANGED <<tables, deprecated, history, sidebar>>

RenderItemTable ==
  /\ call = NoCall
  /\ \E category \in CategoryKeys, item \in ItemNames :
       /\ call' = [NoCall EXCEPT !.op = "ItemTable", !.category = category,
                                 !.item = item]
       /\ completion' = ItemTable(category, item)
  /\ UNCHANGED <<tables, deprecated, history, sidebar>>

\* Variant of RenderIndexTable: the description is assigned to the sidebar
\* entry itself (item.description = ...) instead of to a copy.
RenderIndexTable_assignInPlace ==
  /\ call = NoCall
  /\ \E items \in SidebarLists, docs \in DocRegistries :
       /\ call' = [NoCall EXCEPT !.op = "IndexTable", !.items = items, !.docs = docs]
       /\ completion' = IndexTable(items, docs)
       /\ sidebar' = [k \in 1..Len(items) |->
                        IF /\ "docId" \in DOMAIN items[k]
                           /\ items[k].docId \in DOMAIN docs
                        THEN withDescription(items[k], Some(docs[items[k].docId]))
                        ELSE items[k]]
  /\ UNCHANGED <<tables, deprecated, history>>

RenderIndexTable ==
  /\ call = NoCall
  /\ \E items \in SidebarLists, docs \in DocRegistries :
       /\ call' = [NoCall EXCEPT !.op = "IndexTable", !.items = items, !.docs = docs]
       /\ completion' = IndexTable(items, docs)
       /\ sidebar' = items
  /\ UNCHANGED <<tables, deprecated, history>>

CallTruncate ==
  /\ call = NoCall
  /\ \E str \in Strings :
       /\ call' = [NoCall EXCEPT !.op = "truncate", !.str = str, !.n = 70]
       /\ completion' = Return(truncate(str, 70))
  /\ UNCHANGED <<tables, deprecated, history, sidebar>>

\* col.formatter(item) for a column of a category and one of its items, as
\* the registry holds it or without the field the formatter tests or shows.
CallFormatter ==
  /\ call = NoCall
  /\ \E category \in DOMAIN tables :
       \E j \in 1..Len(tables[category].columns),
          i \in 1..Len(tables[category].items),
          drop \in BOOLEAN :
         LET col == tables[category].columns[j]
             whole == tables[category].items[i]
             item == IF drop
                     THEN [k \in DOMAIN whole \ {col.formatter.field} |-> whole[k]]
                     ELSE whole
         IN  /\ call' = [NoCall EXCEPT !.op = "formatter", !.category = category,
                                       !.column = j, !.object = Some(item)]
             /\ completion' = Return(formatter(col, item))
  /\ UNCHANGED <<tables, deprecated, history, sidebar>>

\* chain.invoke(...): the output of create_sql_query_chain is piped into
\* parse_final_answer, whose result or error is that of the chain.
InvokeChain ==
  /\ call = NoCall
  /\ \E output \in Outputs :
       /\ call' = [NoCall EXCEPT !.op = "parse_final_answer", !.str = output]
       /\ completion' = parse_final_answer(output)
  /\ UNCHANGED <<tables, deprecated, history, sidebar>>

\* The caller takes the completion; the next call may start.
Finish ==
  /\ call # NoCall
  /\ call' = NoCall
  /\ completion' = NoCompletion
  /\ sidebar' = <<>>
  /\ UNCHANGED <<tables, deprecated, history>>

Next ==
  \/ RenderCategoryTable
  \/ RenderItemTable
  \/ RenderIndexTable
  \/ CallTruncate
  \/ CallFormatter
  \/ InvokeChain
  \/ Finish

Spec == Init /\ [][Next]_vars

----------------------------------------------------------------------------
\* Sequences of render calls.  SpecSeq runs the three components on a few
\* inputs and records every completed call, so that calls of one run can be
\* compared with each other.

SeqCategoryKeys == {"social_loaders", "nonexistent"}

SeqItemNames == {"Reddit", "nonexistent"}

\* Two states of the sidebar category: an entry is removed, another added.
SeqSidebarLists ==
  { << SidebarEntries[3], SidebarEntries[7] >>,
    << SidebarEntries[7], SidebarEntries[9] >> }

\* Three states of the document registry.
SeqDocRegistries == {DocRegistry(v) : v \in 0..2}

\* Variant of SeqCategoryTable: the items are reversed in place before they
\* are rendered (Array.prototype.reverse on the registry's own array).
SeqCategoryTable_reverseInPlace ==
  /\ call = NoCall
  /\ Len(history) < MaxCalls
  /\ \E category \in SeqCategoryKeys :
       /\ call' = [NoCall EXCEPT !.op = "CategoryTable", !.category = category]
       /\ completion' = CategoryTable(category)
       /\ tables' = IF category \in DOMAIN tables
                    THEN [tables EXCEPT ![category].items =
                            [i \in 1..Len(@) |-> @[Len(@) + 1 - i]]]
                    ELSE tables
  /\ UNCHANGED <<deprecated, history, sidebar>>

SeqCategoryTable ==
  /\ call = NoCall
  /\ Len(history) < MaxCalls
  /\ \E category \in SeqCategoryKeys :
       /\ call' = [NoCall EXCEPT !.op = "CategoryTable", !.category = category]
       /\ completion' = CategoryTable(category)
  /\ UNCHANGED <<tables, deprecated, history, sidebar>>

SeqItemTable ==
  /\ call = NoCall
  /\ Len(history) < MaxCalls
  /\ \E item \in SeqItemNames :
       /\ call' = [NoCall EXCEPT !.op = "ItemTable", !.category = "social_loaders",
                                 !.item = item]
       /\ completion' = ItemTable("social_loaders", item)
  /\ UNCHANGED <<tables, deprecated, history, sidebar>>

SeqIndexTable ==
  /\ call = NoCall
  /\ Len(history) < MaxCalls
  /\ \E items \in SeqSidebarLists, docs \in SeqDocRegistries :
       /\ call' = [NoCall EXCEPT !.op = "IndexTable", !.items = items, !.docs = docs]
       /\ completion' = IndexTable(items, docs)
       /\ sidebar' = items
  /\ UNCHANGED <<tables, deprecated, history>>

\* The caller takes the completion; the call is recorded.
SeqFinish ==
  /\ call # NoCall
  /\ history' = Append(history, [call |-> call, completion |-> completion])
  /\ call' = NoCall
  /\ completion' = NoCompletion
  /\ sidebar' = <<>>
  /\ UNCHANGED <<tables, deprecated>>

NextSeq ==
  \/ SeqCategoryTable
  \/ SeqItemTable
  \/ SeqIndexTable
  \/ SeqFinish

SpecSeq == Init /\ [][NextSeq]_vars

----------------------------------------------------------------------------
TypeOK ==
  /\ tables = FEATURE_TABLES
  /\ call.op \in {"none", "CategoryTable", "ItemTable", "IndexTable", "truncate",
                  "formatter", "parse_final_answer"}
  /\ completion.threw \in BOOLEAN

----------------------------------------------------------------------------
\* Vocabulary of the properties

\* The value a call returned (the table of a component).
table == completion.value[1]

Returned == ~ completion.threw /\ completion.value # undefined

Failed == completion.threw /\ completion.error # undefined /\ completion.value = undefined

\* UnknownCategory: the failure of reading `columns`/`items` (or calling
\* map/find) on what the registry lookup yields for a key it does not hold.
UnknownCategory == Failed /\ completion.error[1].name = "TypeError"

\* ItemNotFound: the error ItemTable throws itself.
ItemNotFound ==
  /\ Failed
  /\ completion.error[1] =
       Error("Item " \o call.item \o " not found in category " \o call.category)

Registered(category) == category \in DOMAIN FEATURE_TABLES

\* Positions of the items of a registered category that carry the name.
Carriers(category, name) ==
  {k \in 1..Len(FEATURE_TABLES[category].items) :
     FEATURE_TABLES[category].items[k].name = name}

\* The cells of one item under the columns, column by column.
Cells(columns, item) == [j \in 1..Len(columns) |-> formatter(columns[j], item)]

----------------------------------------------------------------------------
\* C1: for every category of the registry, CategoryTable returns a table with
\* as many body rows as the category has items, with as many cells in every
\* body row as the category has columns, and as many header cells as columns.
C1_CategoryTableShape ==
  (call.op = "CategoryTable" /\ Registered(call.category)) =>
    LET cat == FEATURE_TABLES[call.category]
    IN  /\ Returned
        /\ Len(table.tbody) = Len(cat.items)
        /\ \A i \in 1..Len(table.tbody) : Len(table.tbody[i]) = Len(cat.columns)
        /\ Len(table.thead) = Len(cat.columns)

C1_Witness ==
  /\ call.op = "CategoryTable"
  /\ call.category = "vectorstores"
  /\ Returned
  /\ Len(table.tbody) = 13
  /\ Len(table.thead) = 10
  /\ Len(table.tbody[13]) = 10

\* C2: in the table of a category, header cell j is the title of column j and
\* body cell (i, j) is the formatter of column j applied to item i, for every
\* i and j, with no row or column reordered, duplicated or dropped.
C2_CategoryTableOrder ==
  (call.op = "CategoryTable" /\ Registered(call.category)) =>
    LET cat == FEATURE_TABLES[call.category]
    IN  /\ Returned
        /\ DOMAIN table.thead = 1..Len(cat.columns)
        /\ DOMAIN table.tbody = 1..Len(cat.items)
        /\ \A j \in 1..Len(cat.columns) : table.thead[j] = cat.columns[j].title
        /\ \A i \in 1..Len(cat.items) :
             /\ DOMAIN table.tbody[i] = 1..Len(cat.columns)
             /\ \A j \in 1..Len(cat.columns) :
                  table.tbody[i][j] = formatter(cat.columns[j], cat.items[i])

C2_Witness ==
  /\ call.op = "CategoryTable"
  /\ call.category = "chat"
  /\ Returned
  /\ table.thead[2] = A(Some("/docs/how_to/tool_calling"), Some("Tool calling"))
  /\ table.thead[7] = Text("Package")
  /\ table.tbody[1][1] = A(Some("anthropic/"), Some("ChatAnthropic"))
  /\ table.tbody[3][1] = A(Some("fireworks/"), Some("ChatFireworks"))
  /\ table.tbody[3][4] = Text("U+2705")
  /\ table.tbody[3][5] = Text("U+274C")

\* C3: for every category and every item of it, ItemTable called with the
\* item's name returns a table with exactly one body row, whose cells are the
\* category's column formatters applied to that item, in column order.
C3_ItemTableRow ==
  (call.op = "ItemTable" /\ Registered(call.category)) =>
    \A k \in Carriers(call.category, call.item) :
      LET cat == FEATURE_TABLES[call.category]
      IN  /\ Returned
          /\ Len(table.tbody) = 1
          /\ table.tbody[1] = Cells(cat.columns, cat.items[k])

C3_Witness ==
  /\ call.op = "ItemTable"
  /\ call.category = "vectorstores"
  /\ call.item = "Redis"
  /\ Carriers("vectorstores", "Redis") = {13}
  /\ Returned
  /\ Len(table.tbody) = 1
  /\ table.tbody[1][1] = A(Some("redis"), Some("Redis"))
  /\ table.tbody[1][10] = Text("Local")

\* C4: for a registered category and a name that no item of it carries,
\* ItemTable fails with ItemNotFound and returns no table, not even an empty
\* one.
C4_ItemNotFound ==
  (/\ call.op = "ItemTable"
   /\ Registered(call.category)
   /\ Carriers(call.category, call.item) = {}) =>
    ItemNotFound /\ ~ Returned

C4_Witness ==
  /\ call.op = "ItemTable"
  /\ call.category = "chat"
  /\ call.item = "nonexistent"
  /\ completion.threw
  /\ completion.error[1].message = "Item nonexistent not found in category chat"

\* C5: CategoryTable called with a key the registry does not hold fails with
\* UnknownCategory and produces no output at all: no table, no header row.
C5_UnknownCategory ==
  (call.op = "CategoryTable" /\ ~ Registered(call.category)) =>
    UnknownCategory /\ ~ Returned

C5_Witness ==
  /\ call.op = "CategoryTable"
  /\ call.category = "nonexistent"
  /\ completion.threw
  /\ completion.value = undefined

\* C6: ItemTable called with a key the registry does not hold fails with
\* UnknownCategory whatever the item name is; it never reports ItemNotFound
\* and never returns a table.
C6_CategoryBeforeItem ==
  (call.op = "ItemTable" /\ ~ Registered(call.category)) =>
    UnknownCategory /\ ~ ItemNotFound /\ ~ Returned

C6_Witness ==
  /\ call.op = "ItemTable"
  /\ call.category = "nonexistent"
  /\ call.item = "ChatAnthropic"
  /\ completion.threw
  /\ completion.error[1].name = "TypeError"

\* An entry IndexTable must leave out: its docId is on the deny-list or ends
\* with "/index".
Excluded(entry) ==
  /\ "docId" \in DOMAIN entry
  /\ \/ \E d \in 1..Len(DEPRECATED_DOC_IDS) : DEPRECATED_DOC_IDS[d] = entry.docId
     \/ endsWith(entry.docId, "/index")

\* The first cell of the row of an entry: the link with its href and label.
NameCell(entry) == A(Some(entry.href), Some(entry.label))

\* C7: whatever the list of sidebar entries, the table IndexTable returns has
\* no row for an entry whose docId is on the deny-list nor for one whose docId
\* ends with "/index", wherever the entry sits in the list.
C7_ExcludedEntriesAbsent ==
  (call.op = "IndexTable" /\ Returned) =>
    \A k \in 1..Len(call.items) :
      Excluded(call.items[k]) =>
        \A r \in 1..Len(table.tbody) : table.tbody[r][1] # NameCell(call.items[k])

C7_Witness ==
  /\ call.op = "IndexTable"
  /\ Returned
  /\ Len(call.items) = 3
  /\ call.items[1].label = "Chat models"
  /\ Excluded(call.items[1])
  /\ call.items[2].label = "ChatAnthropic"
  /\ call.items[3].label = "ErnieBotChat"
  /\ Excluded(call.items[3])
  /\ Len(table.tbody) = 1
  /\ table.tbody[1][1] = NameCell(call.items[2])

\* C8: every entry that is neither deprecated nor an "/index" entry has
\* exactly one row in the table IndexTable returns, and the rows are in the
\* order of the input: they are the input without the excluded entries.
C8_SurvivorsInOrder ==
  (call.op = "IndexTable" /\ Returned) =>
    LET survives(entry) == ~ Excluded(entry)
        survivors == SelectSeq(call.items, survives)
    IN  /\ Len(table.tbody) = Len(survivors)
        /\ \A r \in 1..Len(survivors) : table.tbody[r][1] = NameCell(survivors[r])

C8_Witness ==
  /\ call.op = "IndexTable"
  /\ Returned
  /\ Len(call.items) = 3
  /\ call.items[1].label = "Reindex"
  /\ call.items[2].label = "ErnieBotChat"
  /\ call.items[3].label = "ChatAnthropic"
  /\ Len(table.tbody) = 2
  /\ table.tbody[1][1] = NameCell(call.items[1])
  /\ table.tbody[2][1] = NameCell(call.items[3])

\* C9: truncate(S, 70) is S itself for every S of at most 70 characters, the
\* empty string and a string of exactly 70 characters included.
C9_TruncateShort ==
  (call.op = "truncate" /\ call.n = 70 /\ Len(call.str) <= 70) =>
    Returned /\ table = call.str

C9_Witness ==
  /\ call.op = "truncate"
  /\ call.n = 70
  /\ Len(call.str) = 70
  /\ Returned
  /\ Len(table) = 70

\* C10: for every S of more than 70 characters, truncate(S, 70) is the first
\* 69 characters of S followed by one marker "..." and nothing else.
C10_TruncateLong ==
  (call.op = "truncate" /\ call.n = 70 /\ Len(call.str) > 70) =>
    /\ Returned
    /\ Len(table) = 69 + Len("...")
    /\ SubSeq(table, 1, 69) = SubSeq(call.str, 1, 69)
    /\ SubSeq(table, 70, Len(table)) = "..."

C10_Witness ==
  /\ call.op = "truncate"
  /\ call.n = 70
  /\ Len(call.str) = 71
  /\ Returned
  /\ Len(table) = 72

----------------------------------------------------------------------------
\* Vocabulary of the properties of IndexTable

\* The entries of a list that IndexTable must keep, in input order.
SurvivorsOf(items) ==
  LET survives(entry) == ~ Excluded(entry)
  IN  SelectSeq(items, survives)

\* The resolver returns for this entry (it does not raise).
Resolves(entry, docs) == "docId" \notin DOMAIN entry \/ entry.docId \in DOMAIN docs

\* The description the registry holds for the entry's own docId, if any.
DescriptionOf(entry, docs) ==
  IF /\ "docId" \in DOMAIN entry
     /\ entry.docId \in DOMAIN docs
     /\ "description" \in DOMAIN docs[entry.docId]
  THEN Some(docs[entry.docId].description)
  ELSE undefined

\* The text of a description cell.
CellText(cell) == cell.children[1]

\* C11: the description cell of a row of IndexTable is never longer than 72
\* characters (69 characters of the description and the marker "..."),
\* whatever description the resolver returned.
C11_DescriptionCellAtMost72 ==
  (call.op = "IndexTable" /\ Returned) =>
    \A r \in 1..Len(table.tbody) : Len(CellText(table.tbody[r][2])) <= 69 + Len("...")

\* C11 as stated: the description cell is never longer than 71 characters.
C11_DescriptionCellAtMost71 ==
  (call.op = "IndexTable" /\ Returned) =>
    \A r \in 1..Len(table.tbody) : Len(CellText(table.tbody[r][2])) <= 71

C11_Witness ==
  /\ call.op = "IndexTable"
  /\ Returned
  /\ Len(call.items) = 1
  /\ DescriptionOf(call.items[1], call.docs) # undefined
  /\ Len(DescriptionOf(call.items[1], call.docs)[1]) = 100
  /\ Len(table.tbody) = 1
  /\ Len(CellText(table.tbody[1][2])) = 72

\* C12: when the resolver returns no description for a surviving entry (no
\* document, or a document without description), IndexTable does not fail:
\* the entry has its row and its description cell is the empty string.
C12_AbsentDescriptionIsEmpty ==
  (/\ call.op = "IndexTable"
   /\ \A k \in 1..Len(call.items) :
        Excluded(call.items[k]) \/ Resolves(call.items[k], call.docs)) =>
    LET survivors == SurvivorsOf(call.items)
    IN  /\ Returned
        /\ Len(table.tbody) = Len(survivors)
        /\ \A r \in 1..Len(survivors) :
             DescriptionOf(survivors[r], call.docs) = undefined =>
               table.tbody[r] = << NameCell(survivors[r]), Text("") >>

C12_Witness ==
  /\ call.op = "IndexTable"
  /\ Returned
  /\ Len(call.items) = 3
  /\ call.items[1].label = "ChatAnthropic"
  /\ call.items[1].docId \in DOMAIN call.docs
  /\ DescriptionOf(call.items[1], call.docs) = undefined
  /\ call.items[2].label = "API reference"
  /\ call.items[3].label = "Reindex"
  /\ DescriptionOf(call.items[3], call.docs) # undefined
  /\ Len(table.tbody) = 3
  /\ table.tbody[1][2] = Text("")
  /\ table.tbody[2][2] = Text("")
  /\ table.tbody[3][2] # Text("")

\* C13: when the resolution of one surviving entry raises an error, IndexTable
\* still returns a table with a row for every surviving entry, the failing
\* entry with an empty description.
C13_FailedResolutionIsAbsent ==
  (/\ call.op = "IndexTable"
   /\ \E k \in 1..Len(call.items) :
        ~ Excluded(call.items[k]) /\ ~ Resolves(call.items[k], call.docs)) =>
    LET survivors == SurvivorsOf(call.items)
    IN  /\ Returned
        /\ Len(table.tbody) = Len(survivors)
        /\ \A r \in 1..Len(survivors) :
             ~ Resolves(survivors[r], call.docs) =>
               table.tbody[r] = << NameCell(survivors[r]), Text("") >>

\* C16: in every category of the registry no two items have the same name, so
\* the row ItemTable(C, n) returns is that of the one item of C named n.
C16_UniqueNames ==
  /\ \A c \in DOMAIN tables :
       \A i, j \in 1..Len(tables[c].items) :
         tables[c].items[i].name = tables[c].items[j].name => i = j
  /\ (call.op = "ItemTable" /\ Returned) =>
       LET cat == tables[call.category]
           named == {k \in 1..Len(cat.items) : cat.items[k].name = call.item}
       IN  /\ Cardinality(named) = 1
           /\ \A k \in named : table.tbody = << Cells(cat.columns, cat.items[k]) >>

C16_Witness ==
  /\ call.op = "ItemTable"
  /\ call.category = "social_loaders"
  /\ call.item = tables.social_loaders.items[2].name
  /\ Returned
  /\ Len(tables.social_loaders.items) = 2
  /\ tables.social_loaders.items[1].name # tables.social_loaders.items[2].name
  /\ table.tbody = << Cells(tables.social_loaders.columns, tables.social_loaders.items[2]) >>

\* C18: the table IndexTable returns has exactly two columns and one row per
\* surviving entry; the first cell of a row is the link made of that entry's
\* href and label, the second the truncated description resolved for that
\* entry's own docId.
C18_IndexTableRows ==
  (call.op = "IndexTable" /\ Returned) =>
    LET survivors == SurvivorsOf(call.items)
    IN  /\ table.thead = << Text("Name"), Text("Description") >>
        /\ Len(table.tbody) = Len(survivors)
        /\ \A r \in 1..Len(survivors) :
             table.tbody[r] =
               << A(Some(survivors[r].href), Some(survivors[r].label)),
                  Text(truncate(Nullish(DescriptionOf(survivors[r], call.docs), ""), 70)) >>

C18_Witness ==
  /\ call.op = "IndexTable"
  /\ Returned
  /\ Len(call.items) = 2
  /\ call.items[1].label = "Reindex"
  /\ call.items[2].label = "ChatAnthropic"
  /\ DescriptionOf(call.items[1], call.docs) # undefined
  /\ DescriptionOf(call.items[2], call.docs) # undefined
  /\ DescriptionOf(call.items[1], call.docs) # DescriptionOf(call.items[2], call.docs)
  /\ Len(table.thead) = 2
  /\ Len(table.tbody) = 2
  /\ Len(table.tbody[1]) = 2
  /\ table.tbody[1][2] # table.tbody[2][2]

\* C19: IndexTable hands out a table only when the description of every
\* surviving entry has been resolved; while the resolution of one surviving
\* entry has not returned there is no table, hence no row of another entry.
C19_NoPartialRows ==
  call.op = "IndexTable" =>
    LET survivors == SurvivorsOf(call.items)
    IN  completion.value # undefined =>
          /\ \A r \in 1..Len(survivors) : Resolves(survivors[r], call.docs)
          /\ Len(table.tbody) = Len(survivors)

C19_Witness ==
  /\ call.op = "IndexTable"
  /\ Len(call.items) = 2
  /\ call.items[1].label = "Reindex"
  /\ Resolves(call.items[1], call.docs)
  /\ call.items[2].label = "ChatAnthropic"
  /\ ~ Resolves(call.items[2], call.docs)
  /\ completion.value = undefined

\* The fields of an item that a formatter reads.
FieldsRead(f) == IF f.kind = "a" THEN {f.field, f.child} ELSE {f.field}

\* C17: every item of every category of the registry has every field that a
\* column formatter of its category reads; and an indicator column applied to
\* an item without the field it tests returns, without failing, the negative
\* indicator, the cell it returns for the value false.
C17_FieldsPresentOrFalsy ==
  /\ \A c \in DOMAIN tables :
       \A j \in 1..Len(tables[c].columns), i \in 1..Len(tables[c].items) :
         FieldsRead(tables[c].columns[j].formatter) \subseteq DOMAIN tables[c].items[i]
  /\ (call.op = "formatter"
        /\ tables[call.category].columns[call.column].formatter.kind = "cond") =>
       LET f == tables[call.category].columns[call.column].formatter
           item == call.object[1]
       IN  (f.field \notin DOMAIN item \/ item[f.field] = FALSE) =>
             Returned /\ table = Text(f.no)

C17_Witness ==
  /\ call.op = "formatter"
  /\ call.category = "chat"
  /\ call.column = 2
  /\ call.object[1].name = "ChatAnthropic"
  /\ tables.chat.items[1].name = "ChatAnthropic"
  /\ tables.chat.items[1].tool_calling = TRUE
  /\ "tool_calling" \notin DOMAIN call.object[1]
  /\ Returned
  /\ table = Text("U+274C")

----------------------------------------------------------------------------
\* Properties of sequences of calls (SpecSeq)

\* The table a recorded call returned.
TableOf(h) == h.completion.value[1]

ReturnedIn(h) == ~ h.completion.threw /\ h.completion.value # undefined

C15_StaticDataUnchanged ==
  /\ tables = FEATURE_TABLES
  /\ deprecated = DEPRECATED_DOC_IDS

C15_Witness ==
  /\ Len(history) >= 3
  /\ history[1].call.op = "CategoryTable"
  /\ ReturnedIn(history[1])
  /\ history[2].call.op = "ItemTable"
  /\ history[2].completion.threw
  /\ history[3].call.op = "IndexTable"
  /\ tables = FEATURE_TABLES
  /\ deprecated = DEPRECATED_DOC_IDS

\* C20: every table IndexTable returns is made of the entries and the
\* descriptions of its own call: each row is the link of an entry of that
\* call's list with the description that call's registry holds for it, also
\* when earlier calls saw other entries or other descriptions.
C20_NoCaching ==
  \A i \in 1..Len(history) :
    (history[i].call.op = "IndexTable" /\ ReturnedIn(history[i])) =>
      LET items == history[i].call.items
          docs == history[i].call.docs
          body == TableOf(history[i]).tbody
      IN  \A r \in 1..Len(body) :
            \E k \in 1..Len(items) :
              /\ body[r][1] = NameCell(items[k])
              /\ body[r][2] =
                   Text(truncate(Nullish(DescriptionOf(items[k], docs), ""), 70))

C20_Witness ==
  /\ Len(history) >= 2
  /\ history[1].call.op = "IndexTable"
  /\ history[2].call.op = "IndexTable"
  /\ ReturnedIn(history[1])
  /\ ReturnedIn(history[2])
  /\ history[1].call.items[1].label = "ChatAnthropic"
  /\ history[1].call.items[2].label = "Reindex"
  /\ history[2].call.items[1].label = "Reindex"
  /\ history[2].call.items[2].label = "API reference"
  /\ history[1].call.docs # history[2].call.docs
  /\ TableOf(history[1]).tbody[1][1] = NameCell(history[1].call.items[1])
  /\ TableOf(history[2]).tbody[1][1] = NameCell(history[2].call.items[1])
  /\ TableOf(history[1]).tbody[2][2] # TableOf(history[2]).tbody[1][2]

----------------------------------------------------------------------------
\* Further properties of the filter of IndexTable

\* The row an entry that survives has in the table: its rank among the
\* survivors of the list up to and including it.
RowOf(items, k) == Len(SurvivorsOf(SubSeq(items, 1, k)))

Contains(str, sub) ==
  \E i \in 1..Len(str) - Len(sub) + 1 : SubSeq(str, i, i + Len(sub) - 1) = sub

UpperCase ==
  [A |-> "a", B |-> "b", C |-> "c", D |-> "d", E |-> "e", F |-> "f", G |-> "g",
   H |-> "h", I |-> "i", J |-> "j", K |-> "k", L |-> "l", M |-> "m", N |-> "n",
   O |-> "o", P |-> "p", Q |-> "q", R |-> "r", S |-> "s", T |-> "t", U |-> "u",
   V |-> "v", W |-> "w", X |-> "x", Y |-> "y", Z |-> "z"]

\* The string in lower case.
RECURSIVE LowerCase(_)
LowerCase(str) ==
  IF str = "" THEN ""
  ELSE LET c == SubSeq(str, 1, 1)
       IN  (IF c \in DOMAIN UpperCase THEN UpperCase[c] ELSE c)
             \o LowerCase(SubSeq(str, 2, Len(str)))

\* A docId that only resembles a filtered one: it is not on the deny-list and
\* does not end with "/index", but it starts with or contains a deprecated
\* id, or is one up to the case of its letters, or contains "/index" before
\* its end, or ends with "index" without the slash.
NearMiss(id) ==
  /\ \A d \in 1..Len(DEPRECATED_DOC_IDS) : DEPRECATED_DOC_IDS[d] # id
  /\ ~ endsWith(id, "/index")
  /\ \/ \E d \in 1..Len(DEPRECATED_DOC_IDS) :
          \/ Contains(id, DEPRECATED_DOC_IDS[d])
          \/ LowerCase(id) = LowerCase(DEPRECATED_DOC_IDS[d])
     \/ Contains(id, "/index")
     \/ endsWith(id, "index")

\* C22: the deny-list test is equality of whole strings and the "/index" test
\* is on the end of the string: an entry whose docId only resembles a
\* filtered one (NearMiss) has its row in every table IndexTable returns.
C22_NearMissIsKept ==
  (call.op = "IndexTable" /\ Returned) =>
    \A k \in 1..Len(call.items) :
      ("docId" \in DOMAIN call.items[k] /\ NearMiss(call.items[k].docId)) =>
        /\ RowOf(call.items, k) \in 1..Len(table.tbody)
        /\ table.tbody[RowOf(call.items, k)][1] = NameCell(call.items[k])

\* str.startsWith(prefix) for two strings.
StartsWith(str, prefix) ==
  Len(str) >= Len(prefix) /\ SubSeq(str, 1, Len(prefix)) = prefix

\* The identifiers hold a near miss of every kind: one that starts with a
\* deprecated id, one that contains one after its start, one that is one up
\* to case, one with "/index" before its end, one ending with "index".
NearMissKinds(ids) ==
  LET D == {DEPRECATED_DOC_IDS[d] : d \in 1..Len(DEPRECATED_DOC_IDS)}
  IN  /\ \E id \in ids : NearMiss(id) /\ \E d \in D : StartsWith(id, d)
      /\ \E id \in ids : NearMiss(id) /\ \E d \in D :
           Contains(id, d) /\ ~ StartsWith(id, d)
      /\ \E id \in ids : NearMiss(id) /\ \E d \in D :
           ~ Contains(id, d) /\ LowerCase(id) = LowerCase(d)
      /\ \E id \in ids : NearMiss(id) /\ Contains(id, "/index")
      /\ \E id \in ids : NearMiss(id) /\ endsWith(id, "index")

C22_Witness ==
  /\ call.op = "IndexTable"
  /\ Returned
  /\ Len(call.items) = 3
  /\ call.items[1].label = "Ernie Bot"
  /\ call.items[2].label = "Ernie"
  /\ call.items[3].label = "Overview"
  /\ \A k \in 1..3 : NearMiss(call.items[k].docId)
  /\ NearMissKinds(DocIds)
  /\ Len(table.tbody) = 3
  /\ \A k \in 1..3 : table.tbody[k][1] = NameCell(call.items[k])

\* C27: IndexTable leaves its input as it was: after the call the sidebar
\* array has the same length, the same entries in the same order, each with
\* its docId, href and label, and no entry has a description field.
C27_SidebarUnchanged ==
  call.op = "IndexTable" =>
    /\ Len(sidebar) = Len(call.items)
    /\ \A k \in 1..Len(sidebar) :
         /\ sidebar[k] = call.items[k]
         /\ "description" \notin DOMAIN sidebar[k]

C27_Witness ==
  /\ call.op = "IndexTable"
  /\ Returned
  /\ Len(call.items) = 3
  /\ call.items[1].label = "Chat models"
  /\ call.items[2].label = "ChatAnthropic"
  /\ call.items[3].label = "API reference"
  /\ DescriptionOf(call.items[2], call.docs) # undefined
  /\ Len(table.tbody) = 2
  /\ table.tbody[1][2] # Text("")
  /\ sidebar = call.items

----------------------------------------------------------------------------
\* Further properties of truncate, CategoryTable and ItemTable

\* C23: truncate is idempotent at the limit 70: truncating the result of
\* truncate(S, 70) again gives that result, for every S.
C23_TruncateIdempotent ==
  (call.op = "truncate" /\ call.n = 70) =>
    /\ Returned
    /\ table = truncate(call.str, 70)
    /\ truncate(table, 70) = table

C23_Witness ==
  /\ call.op = "truncate"
  /\ call.n = 70
  /\ Len(call.str) = 100
  /\ Returned
  /\ table # call.str
  /\ Len(table) = 72
  /\ truncate(table, 70) = table

\* C24: ItemTable agrees with CategoryTable: when ItemTable returns for a name
\* of the category, its header row is the header row of the category's table
\* and its one body row is the body row that table has for the (first) item
\* carrying the name.
C24_ItemAgreesWithCategory ==
  (/\ call.op = "ItemTable"
   /\ Registered(call.category)
   /\ Carriers(call.category, call.item) # {}) =>
    LET whole == CategoryTable(call.category)
        i == Min(Carriers(call.category, call.item))
    IN  /\ Returned
        /\ ~ whole.threw
        /\ table.thead = whole.value[1].thead
        /\ Len(table.tbody) = 1
        /\ table.tbody[1] = whole.value[1].tbody[i]

C24_Witness ==
  /\ call.op = "ItemTable"
  /\ call.category = "chat"
  /\ call.item = "ChatOpenAI"
  /\ Carriers("chat", "ChatOpenAI") = {5}
  /\ Returned
  /\ Len(table.thead) = 7
  /\ table.thead = CategoryTable("chat").value[1].thead
  /\ table.tbody = << CategoryTable("chat").value[1].tbody[5] >>
  /\ table.tbody[1] # CategoryTable("chat").value[1].tbody[4]

\* C25: the category document_loaders, which has no columns and no items, is
\* a valid category: CategoryTable returns a table with no header cell and no
\* row instead of failing, and ItemTable fails with ItemNotFound for every
\* name.
C25_EmptyCategory ==
  /\ Registered("document_loaders")
  /\ FEATURE_TABLES.document_loaders.columns = <<>>
  /\ FEATURE_TABLES.document_loaders.items = <<>>
  /\ (call.op = "CategoryTable" /\ call.category = "document_loaders") =>
       /\ Returned
       /\ ~ UnknownCategory
       /\ table.thead = <<>>
       /\ table.tbody = <<>>
  /\ (call.op = "ItemTable" /\ call.category = "document_loaders") =>
       ItemNotFound /\ ~ Returned

C25_Witness ==
  /\ call.op = "CategoryTable"
  /\ call.category = "document_loaders"
  /\ Returned
  /\ Len(table.thead) = 0
  /\ Len(table.tbody) = 0

\* The name is carried by an item of another category only, or is the name
\* of an item of this category up to the case of its letters.
Foreign(category, name) ==
  /\ Carriers(category, name) = {}
  /\ \/ \E c \in DOMAIN FEATURE_TABLES \ {category} : Carriers(c, name) # {}
     \/ \E n \in Names(FEATURE_TABLES[category]) :
          n # name /\ LowerCase(n) = LowerCase(name)

\* C26: the lookup of ItemTable is within the category and by equality of
\* the whole name, case included: a name carried only by an item of another
\* category, or differing from a name of the category only in case, fails
\* with ItemNotFound.
C26_LookupScopedAndExact ==
  (/\ call.op = "ItemTable"
   /\ Registered(call.category)
   /\ Foreign(call.category, call.item)) =>
    ItemNotFound /\ ~ Returned

C26_Witness ==
  /\ call.op = "ItemTable"
  /\ call.category = "chat"
  /\ call.item = "AnthropicLLM"
  /\ Carriers("llms", "AnthropicLLM") # {}
  /\ Carriers("chat", "AnthropicLLM") = {}
  /\ Foreign("chat", "chatanthropic")
  /\ "chatanthropic" \in ItemNames
  /\ completion.threw
  /\ completion.error[1].message = "Item AnthropicLLM not found in category chat"

----------------------------------------------------------------------------
\* Properties of parse_final_answer

\* The text of the output after the first occurrence of the marker.
AfterFirstMarker(output) ==
  SubSeq(output, str_find(output, FinalAnswerMarker) + Len(FinalAnswerMarker),
         Len(output))

\* C28: when the output holds the marker "Final answer: ", parse_final_answer
\* returns the text that follows its first occurrence up to the next
\* occurrence (or to the end): the result starts right after the first
\* marker, holds no marker, and is followed by a marker or by the end of the
\* output.  Neither the marker nor the text before it is part of the result.
C28_TextAfterFirstMarker ==
  (call.op = "parse_final_answer" /\ Contains(call.str, FinalAnswerMarker)) =>
    LET rest == AfterFirstMarker(call.str)
    IN  /\ Returned
        /\ StartsWith(rest, table)
        /\ ~ Contains(table, FinalAnswerMarker)
        /\ \/ Len(table) = Len(rest)
           \/ StartsWith(SubSeq(rest, Len(table) + 1, Len(rest)), FinalAnswerMarker)

C28_Witness ==
  /\ call.op = "parse_final_answer"
  /\ call.str = "First draft: SELECT 1;\nFinal answer: SELECT 2;Final answer: "
  /\ Len(split(call.str, FinalAnswerMarker)) = 3
  /\ Returned
  /\ table = "SELECT 2;"

\* C29: when the output does not hold the marker "Final answer: ",
\* parse_final_answer raises IndexError (list index out of range): the chain
\* returns nothing, neither the output as it is nor the empty string.
C29_NoMarkerRaises ==
  (call.op = "parse_final_answer" /\ ~ Contains(call.str, FinalAnswerMarker)) =>
    /\ Failed
    /\ completion.error[1] = IndexError
    /\ ~ Returned

C29_Witness ==
  /\ call.op = "parse_final_answer"
  /\ call.str = "First draft: SELECT 1;\nFinal answer:SELECT 2;"
  /\ completion.threw
  /\ completion.error[1].name = "IndexError"
  /\ completion.value = undefined

====
